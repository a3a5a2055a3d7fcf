------------------------------- MODULE Sandbox -------------------------------
(***************************************************************************)
(* One sandbox session: vault_sandbox_open, which opens a vault in a shell *)
(* of its own, and run_isolated, which runs a command.  Both are the same  *)
(* protocol of three processes:                                            *)
(*                                                                         *)
(*   parent  nuk4sd: writes the uid map of the child, puts it in a cgroup, *)
(*           wires its network, waits for it and tidies up;                *)
(*   child   enters the namespaces, forks PID 1 and relays its exit code;  *)
(*   init    PID 1 of the new namespace: builds the root, drops everything *)
(*           and execs the program.                                        *)
(*                                                                         *)
(* They meet on pipes: ready (the child is in its user namespace), sync    *)
(* (the map is written; no byte is ever sent, the parent closes it) and,   *)
(* with --net-veth, netready and netsync.  A read returns when there is a  *)
(* byte or when nobody holds the write end, and a process of the session   *)
(* may be killed at any point.  What init mounts is the module JailTree.   *)
(***************************************************************************)
EXTENDS FiniteSets

VARIABLES
    conf,       \* the options of the session
    parent,     \* where the parent is
    child,      \* where the child is
    init,       \* where PID 1 is
    pipe,       \* for each pipe, whether it holds a byte and who may write it
    code,       \* exit codes of child and init
    layers,     \* what has been done to isolate the program
    whitelist,  \* the child is in g_pid_whitelist
    cipher,     \* mode of cipher_<id>
    held,       \* what the parent has made outside: jail_root, cgroup, veth, nat
    shell,      \* the /bin/sh of the vault's jail
    result,     \* what the last call returned
    left,       \* history: what an early return or a failed removal left there
    failed,     \* history: the step that made the session fail
    struck      \* history: the processes killed from outside

sandboxVars == <<conf, parent, child, init, pipe, code, layers, whitelist, cipher, held,
                 shell, result, left, failed, struck>>
session == <<conf, whitelist, cipher, held, shell, result, left>>

Pipes == {"ready", "sync", "netready", "netsync"}
Codes == {"none", "program", "layer", "unshare", "clone", "pivot", "mount",
          "exec", "relayed", "signal"}
ParentPc == {"idle", "forked", "ready", "map", "kill", "close", "reap", "cgroup",
             "release", "veth", "netsync", "wait", "clean", "dead"}
ChildPc == {"none", "start", "newuser", "signal", "sync", "unshare", "netready",
            "netsync", "tree", "fork", "wait", "zombie"}
InitPc == {"none", "mounts", "pivot", "remount", "caps", "seccomp", "exec",
           "running", "zombie"}

\* cgroup: none, tried (--cpu-shares and the like), demanded (--cgroup).
\* nfilter is looked at with --net-veth only, gui matters to exec only in "open".
Options ==
    {o \in [mode : {"open", "run"}, cgroup : {"off", "soft", "hard"}, veth : BOOLEAN,
            nfilter : BOOLEAN, seccomp : BOOLEAN, gui : BOOLEAN] :
        /\ o.nfilter => o.veth
        /\ o.gui => o.mode = "open"
        /\ o.mode = "open" => o.cgroup = "off" /\ ~o.veth /\ o.seccomp}

Readable(p) == pipe[p].byte \/ pipe[p].writers = {}
\* The write ends of the pipes ps, closed by process w.
Closed(w, ps) ==
    [p \in Pipes |-> IF p \in ps THEN [pipe[p] EXCEPT !.writers = @ \ {w}] ELSE pipe[p]]
\* A byte for p, after which w closes its end of it.
Sent(w, p) == [pipe EXCEPT ![p] = [byte |-> TRUE, writers |-> @.writers \ {w}]]

Quiet == parent \in {"idle", "dead"}
ChildAlive == child \notin {"none", "zombie"}
InitAlive == init \notin {"none", "zombie"}

SandboxInit ==
    /\ conf \in Options
    /\ parent = "idle" /\ child = "none" /\ init = "none"
    /\ pipe = [p \in Pipes |-> [byte |-> FALSE, writers |-> {}]]
    /\ code = [child |-> "none", init |-> "none"]
    /\ layers = {} /\ whitelist = FALSE /\ cipher = "sealed" /\ held = {}
    /\ shell \in {"none", "static"} /\ result = "none" /\ left = {}
    /\ failed = "none" /\ struck = {}

-----------------------------------------------------------------------------
(* The parent, up to its fork.                                             *)

\* jail_install_shell: a shell that is there is kept.  A busybox of the host is
\* copied if it is static; the one the package manager installed is not looked at.
jail_install_shell ==
    IF shell # "none" THEN {shell} ELSE {"none", "static", "dynamic"}

\* The files a session makes before it forks: a vault is opened and its jail
\* laid out, or a root for the command is made in /tmp.  A root left there by an
\* earlier session has another name.
Prepare ==
    \/ conf'.mode = "open" /\ cipher' = "open" /\ shell' \in jail_install_shell
                           /\ held' = {}
    \/ conf'.mode = "run" /\ held' = {"jail_root"} /\ UNCHANGED <<cipher, shell>>

\* One session's processes at a time: a program that outlived its session is
\* over before the next one starts.
Start ==
    /\ parent = "idle" /\ child = "none" /\ ~InitAlive
    /\ conf' \in Options
    /\ Prepare
    /\ layers' = {} /\ code' = [child |-> "none", init |-> "none"]
    /\ failed' = "none" /\ struck' = {} /\ init' = "none"

\* No pipe or no process to be had: the call returns with what it has made.
start_fails ==
    /\ Start
    /\ result' = "ERR_SYSTEM"
    /\ left' = (left \cap {"cipher"}) \cup (IF conf'.mode = "open" THEN {"cipher"} ELSE {})
    /\ UNCHANGED <<parent, child, pipe, whitelist>>

start_forks ==
    /\ Start
    /\ parent' = "forked" /\ child' = "start"
    /\ pipe' = [p \in Pipes |-> [byte |-> FALSE, writers |-> {"parent", "child"}]]
    /\ result' = "none" /\ left' = left \cap {"cipher"}
    /\ UNCHANGED whitelist

-----------------------------------------------------------------------------
(* The parent, while the child lives.                                      *)

parent_adopts ==
    /\ parent = "forked" /\ parent' = "ready"
    /\ whitelist' = TRUE
    /\ pipe' = Closed("parent", {"ready"})
    /\ UNCHANGED <<conf, child, init, code, layers, cipher, held, shell, result, left, failed, struck>>

\* A child that died without a byte is not told apart from one that is ready.
parent_reads_ready ==
    /\ parent = "ready" /\ Readable("ready")
    /\ parent' = "map"
    /\ UNCHANGED <<child, init, pipe, code, layers, session, failed, struck>>

\* The kernel takes a map only for a process in a user namespace of its own.
vsb_write_uid_gid_map ==
    /\ parent = "map"
    /\ \/ "user" \in layers /\ layers' = layers \cup {"map"} /\ parent' = "cgroup"
          /\ UNCHANGED failed
       \/ parent' = "kill" /\ failed' = (IF failed = "none" THEN "map" ELSE failed)
          /\ UNCHANGED layers
    /\ UNCHANGED <<child, init, pipe, code, session, struck>>

\* A call that fails may have built the group before it failed to put the child
\* in it; nobody removes that one.  Only --cgroup makes the failure fatal.
rust_cgroup_apply ==
    /\ parent = "cgroup"
    /\ \/ conf.cgroup = "off" /\ parent' = "release" /\ UNCHANGED <<held, left, layers, failed>>
       \/ /\ conf.cgroup # "off" /\ parent' = "release"
          /\ held' = held \cup {"cgroup"} /\ layers' = layers \cup {"cgroup"}
          /\ UNCHANGED <<left, failed>>
       \/ /\ conf.cgroup # "off"
          /\ \E built \in SUBSET {"cgroup"} : held' = held \cup built /\ left' = left \cup built
          /\ \/ conf.cgroup = "soft" /\ parent' = "release" /\ UNCHANGED failed
             \/ conf.cgroup = "hard" /\ parent' = "kill" /\ failed' = "cgroup"
          /\ UNCHANGED layers
    /\ UNCHANGED <<conf, child, init, pipe, code, whitelist, cipher, shell, result, struck>>

\* A signal nobody can catch ends a process; its write ends are closed.
Killed(p) ==
    IF p = "child" /\ ChildAlive
    THEN child' = "zombie" /\ code' = [code EXCEPT !.child = "signal"]
         /\ pipe' = Closed("child", Pipes)
    ELSE UNCHANGED <<child, code, pipe>>

\* Faulty variant: nobody waits for a child in this state.
abort_kill_no_zombie ==
    /\ parent = "kill" /\ parent' = "close"
    /\ child' = "killed" /\ UNCHANGED <<code, pipe>>
    /\ UNCHANGED <<init, layers, session, failed, struck>>

\* Faulty variant: the pipe is closed and the child not killed first.
abort_kill_late ==
    /\ parent = "kill" /\ parent' = "close"
    /\ pipe' = Closed("parent", {"sync"})
    /\ UNCHANGED <<child, init, code, layers, session, failed, struck>>

abort_kill ==
    /\ parent = "kill" /\ parent' = "close"
    /\ Killed("child")
    /\ UNCHANGED <<init, layers, session, failed, struck>>

abort_close ==
    /\ parent = "close" /\ parent' = "reap"
    /\ pipe' = Closed("parent", {"sync"})
    /\ UNCHANGED <<child, init, code, layers, session, failed, struck>>

\* Faulty variant: the PID stays on the whitelist.
abort_returns_listed ==
    /\ parent = "reap" /\ child = "zombie"
    /\ parent' = "idle" /\ child' = "none"
    /\ pipe' = Closed("parent", Pipes)
    /\ held' = held \ {"jail_root"}
    /\ result' = "ERR_PERM_DENIED"
    /\ left' = left \cup (IF conf.mode = "open" THEN {"cipher"} ELSE {})
    /\ UNCHANGED <<conf, init, code, layers, whitelist, cipher, shell, failed, struck>>

\* The call gives up: waitpid, the whitelist and the root, but not the seal of
\* cipher_<id>.  rmdir leaves a root that is not empty.
abort_returns ==
    /\ parent = "reap" /\ child = "zombie"
    /\ parent' = "idle" /\ child' = "none"
    /\ pipe' = Closed("parent", Pipes)
    /\ whitelist' = FALSE
    /\ held' = held \ (IF "vault" \in layers THEN {} ELSE {"jail_root"})
    /\ result' = "ERR_PERM_DENIED"
    /\ left' = left \cup (IF conf.mode = "open" THEN {"cipher"} ELSE {})
    /\ UNCHANGED <<conf, init, code, layers, cipher, shell, failed, struck>>

parent_releases ==
    /\ parent = "release" /\ parent' = (IF conf.veth THEN "veth" ELSE "wait")
    /\ pipe' = Closed("parent", {"sync", "netready"})
    /\ UNCHANGED <<child, init, code, layers, session, failed, struck>>

\* vsb_setup_veth_host makes the pair, moves the inner end into the child's
\* namespace, then sets the host's forwarding and its NAT rule.  Its failure is
\* ignored, and so is that of every ip and iptables command but the first two.
vsb_net_veth_setup ==
    /\ parent = "veth" /\ Readable("netready")
    /\ parent' = "netsync"
    /\ \/ UNCHANGED <<held, layers>>
       \/ pipe["netready"].byte /\ held' = held \cup {"veth"} /\ UNCHANGED layers
       \/ /\ pipe["netready"].byte /\ layers' = layers \cup {"veth"}
          /\ held' \in {held \cup {"veth"}, held \cup {"veth", "nat"}}
    /\ UNCHANGED <<conf, child, init, pipe, code, whitelist, cipher, shell, result, left, failed, struck>>

parent_syncs_net ==
    /\ parent = "netsync" /\ parent' = "wait"
    /\ pipe' = Sent("parent", "netsync")
    /\ UNCHANGED <<child, init, code, layers, session, failed, struck>>

parent_reaps ==
    /\ parent = "wait" /\ child = "zombie"
    /\ parent' = "clean" /\ child' = "none"
    /\ whitelist' = FALSE
    /\ UNCHANGED <<conf, init, pipe, code, layers, cipher, held, shell, result, left, failed, struck>>

\* The exit codes vault_sandbox_open knows become errors; every other is OK.
\* The program may exit with one of those codes as well.
Verdict(c) ==
    CASE c = "signal" -> {"ERR_SYSTEM"}
      [] c \in {"unshare", "clone", "pivot", "mount"} -> {c}
      [] c = "program" -> {"ERR_OK", "unshare", "clone", "pivot", "mount"}
      [] OTHER -> {"ERR_OK"}

\* What the call takes away when it ends, if it can.
Due == {r \in {"cgroup", "veth"} : IF r = "cgroup" THEN "cgroup" \in layers ELSE conf.veth}

\* The session is over.  Nobody looks at what the removals and the chmod of
\* cipher_<id> return; a cgroup with a process in it cannot be removed, and
\* nothing takes back the forwarding and the NAT rule.
parent_returns ==
    /\ parent = "clean" /\ parent' = "idle"
    /\ pipe' = Closed("parent", Pipes)
    /\ \/ /\ conf.mode = "open" /\ cipher' \in {"sealed", "open"}
          /\ left' = (IF cipher' = "open" THEN {"cipher"} ELSE {})
          /\ result' \in Verdict(code.child) /\ UNCHANGED held
       \/ /\ conf.mode = "run"
          /\ \E kept \in SUBSET (Due \cap held) :
                /\ InitAlive /\ "cgroup" \in Due => "cgroup" \in kept
                /\ held' = held \ ((Due \ kept) \cup (IF "vault" \in layers THEN {} ELSE {"jail_root"}))
                /\ left' = left \cup kept
          /\ result' = code.child /\ UNCHANGED cipher
    /\ UNCHANGED <<conf, child, init, code, layers, whitelist, shell, failed, struck>>

-----------------------------------------------------------------------------
(* The child.                                                              *)

\* _exit, with all descriptors closed by the kernel.
child_exits(c, step) ==
    /\ child' = "zombie" /\ code' = [code EXCEPT !.child = c]
    /\ pipe' = Closed("child", Pipes)
    /\ failed' = IF step # "none" THEN step ELSE failed

\* Faulty variant: the child keeps its own write end of the pipe it waits on.
child_starts_keeps_sync ==
    /\ child = "start" /\ child' = "newuser"
    /\ UNCHANGED <<parent, init, pipe, code, layers, session, failed, struck>>

child_starts ==
    /\ child = "start" /\ child' = "newuser"
    /\ pipe' = Closed("child", {"sync"})
    /\ UNCHANGED <<parent, init, code, layers, session, failed, struck>>

unshare_user ==
    /\ child = "newuser"
    /\ \/ child' = "signal" /\ layers' = layers \cup {"user"}
          /\ UNCHANGED <<pipe, code, failed>>
       \/ child_exits(IF conf.mode = "open" THEN "unshare" ELSE "layer", "user")
          /\ UNCHANGED layers
    /\ UNCHANGED <<parent, init, session, struck>>

child_signals ==
    /\ child = "signal" /\ child' = "sync"
    /\ pipe' = Sent("child", "ready")
    /\ UNCHANGED <<parent, init, code, layers, session, failed, struck>>

\* The result of the read is not looked at: the end of the file is the signal.
child_reads_sync ==
    /\ child = "sync" /\ Readable("sync")
    /\ child' = "unshare"
    /\ UNCHANGED <<parent, init, pipe, code, layers, session, failed, struck>>

unshare_ns ==
    /\ child = "unshare"
    /\ \/ child' = (IF conf.mode = "open" THEN "fork" ELSE IF conf.veth THEN "netready" ELSE "tree")
          /\ layers' = layers \cup {"ns"} /\ UNCHANGED <<pipe, code, failed>>
       \/ child_exits(IF conf.mode = "open" THEN "unshare" ELSE "layer", "ns")
          /\ UNCHANGED layers
    /\ UNCHANGED <<parent, init, session, struck>>

child_signals_net ==
    /\ child = "netready" /\ child' = "netsync"
    /\ pipe' = [Sent("child", "netready") EXCEPT !["netsync"].writers = @ \ {"child"}]
    /\ UNCHANGED <<parent, init, code, layers, session, failed, struck>>

\* vsb_configure_veth_inside, whose failure is ignored, and nfilterflag, whose
\* failure is fatal.
configure_net ==
    /\ child = "netsync" /\ Readable("netsync")
    /\ \/ /\ child' = "tree"
          /\ layers' = layers \cup {"address"} \cup (IF conf.nfilter THEN {"filter"} ELSE {})
          /\ UNCHANGED <<pipe, code, failed>>
       \/ /\ conf.nfilter /\ child_exits("layer", "filter")
          /\ UNCHANGED layers
    /\ UNCHANGED <<parent, init, session, struck>>

\* jail_root/vault is made and the vault bound on it, then the jail laid out.
bind_vault ==
    /\ child = "tree"
    /\ \/ child' = "fork" /\ layers' = layers \cup {"vault"} /\ UNCHANGED <<pipe, code, failed>>
       \/ child_exits("layer", "vault") /\ layers' \in {layers, layers \cup {"vault"}}
    /\ UNCHANGED <<parent, init, session, struck>>

fork_init ==
    /\ child = "fork"
    /\ \/ child' = "wait" /\ init' = "mounts" /\ UNCHANGED <<pipe, code, failed>>
       \/ child_exits(IF conf.mode = "open" THEN "clone" ELSE "layer", "clone")
          /\ UNCHANGED init
    /\ UNCHANGED <<parent, layers, session, struck>>

\* Faulty variant: the exit code of PID 1 is not passed on.
child_relays_ok ==
    /\ child = "wait" /\ init = "zombie"
    /\ init' = "none"
    /\ child_exits("program", "none")
    /\ UNCHANGED <<parent, layers, session, struck>>

child_relays ==
    /\ child = "wait" /\ init = "zombie"
    /\ init' = "none"
    /\ child_exits(IF code.init = "signal" THEN "relayed" ELSE code.init, "none")
    /\ UNCHANGED <<parent, layers, session, struck>>

-----------------------------------------------------------------------------
(* PID 1.                                                                  *)

init_exits(c, step) ==
    /\ init' = "zombie" /\ code' = [code EXCEPT !.init = c]
    /\ failed' = IF step # "none" THEN step ELSE failed

\* A step of PID 1 that ends it when it fails.
Layer(at, next, name, c) ==
    /\ init = at
    /\ \/ init' = next /\ layers' = layers \cup {name} /\ UNCHANGED <<code, failed>>
       \/ init_exits(c, name) /\ UNCHANGED layers
    /\ UNCHANGED <<parent, child, pipe, session, struck>>

\* The mounts of the jail; with vault_sandbox_open none of them is fatal.
jail_mounts ==
    /\ Layer("mounts", "pivot", "mounts", "layer")
    /\ conf.mode = "open" => init' # "zombie"

\* A root that cannot be entered has its code; an old root that cannot be
\* detached afterwards ends PID 1 on the spot (pivot_fatal).
vsb_pivot_root ==
    \/ Layer("pivot", IF conf.mode = "open" THEN "remount" ELSE "caps", "root",
             IF conf.mode = "open" THEN "pivot" ELSE "layer")
    \/ /\ init = "pivot" /\ init_exits("layer", "oldroot")
       /\ UNCHANGED <<parent, child, pipe, layers, session, struck>>

vsb_prepare_mounts == Layer("remount", "caps", "proc", "mount")
vsb_drop_caps == Layer("caps", "seccomp", "caps", "layer")
vsb_apply_seccomp == conf.seccomp /\ Layer("seccomp", "exec", "seccomp", "layer")
no_seccomp ==
    /\ init = "seccomp" /\ ~conf.seccomp /\ init' = "exec"
    /\ UNCHANGED <<parent, child, pipe, code, layers, session, failed, struck>>

\* A dynamic shell needs the host's libraries, which only --gui binds.
CanExec == conf.mode = "run" \/ shell = "static" \/ (shell = "dynamic" /\ conf.gui)

exec ==
    /\ init = "exec"
    /\ \/ CanExec /\ init' = "running" /\ UNCHANGED <<code, failed>>
       \/ init_exits("exec", "exec")
    /\ UNCHANGED <<parent, child, pipe, layers, session, struck>>

program_ends ==
    /\ init = "running"
    /\ init_exits("program", "none")
    /\ UNCHANGED <<parent, child, pipe, layers, session, struck>>

-----------------------------------------------------------------------------
(* Signals from outside, one to a process and session.                     *)

Kill(p) ==
    /\ p \notin struck /\ struck' = struck \cup {p}
    /\ \/ /\ p = "parent" /\ ~Quiet /\ parent' = "dead"
          /\ pipe' = Closed("parent", Pipes) /\ UNCHANGED <<child, init, code>>
       \/ /\ p = "child" /\ ChildAlive /\ Killed("child") /\ UNCHANGED <<parent, init>>
       \/ /\ p = "init" /\ InitAlive /\ init' = "zombie"
          /\ code' = [code EXCEPT !.init = "signal"] /\ UNCHANGED <<parent, child, pipe>>
    /\ UNCHANGED <<layers, session, failed>>

-----------------------------------------------------------------------------
ParentStep ==
    \/ parent_adopts \/ parent_reads_ready \/ vsb_write_uid_gid_map \/ rust_cgroup_apply
    \/ abort_kill \/ abort_close \/ abort_returns \/ parent_releases
    \/ vsb_net_veth_setup \/ parent_syncs_net \/ parent_reaps \/ parent_returns
ChildStep ==
    \/ child_starts \/ unshare_user \/ child_signals \/ child_reads_sync \/ unshare_ns
    \/ child_signals_net \/ configure_net \/ bind_vault \/ fork_init \/ child_relays
InitStep ==
    \/ jail_mounts \/ vsb_pivot_root \/ vsb_prepare_mounts \/ vsb_drop_caps
    \/ vsb_apply_seccomp \/ no_seccomp \/ exec

SandboxNext ==
    \/ start_fails \/ start_forks \/ ParentStep \/ ChildStep \/ InitStep \/ program_ends
    \/ \E p \in {"parent", "child", "init"} : Kill(p)

\* The kernel schedules every process; nobody has to start a session, end a
\* program or kill anything.
Fairness == WF_sandboxVars(ParentStep) /\ WF_sandboxVars(ChildStep) /\ WF_sandboxVars(InitStep)

SandboxSpec == SandboxInit /\ [][SandboxNext]_sandboxVars /\ Fairness

-----------------------------------------------------------------------------
TypeOK ==
    /\ conf \in Options /\ parent \in ParentPc /\ child \in ChildPc /\ init \in InitPc
    /\ pipe \in [Pipes -> [byte : BOOLEAN, writers : SUBSET {"parent", "child"}]]
    /\ code \in [{"child", "init"} -> Codes]
    /\ layers \subseteq {"user", "map", "cgroup", "ns", "veth", "address", "filter", "vault",
                         "mounts", "root", "proc", "caps", "seccomp"}
    /\ whitelist \in BOOLEAN /\ cipher \in {"sealed", "open"}
    /\ held \subseteq {"jail_root", "cgroup", "veth", "nat"}
    /\ left \subseteq {"cipher", "cgroup", "veth"}
    /\ shell \in {"none", "static", "dynamic"}

\* What the program must be behind before it runs: every layer the options did
\* not switch off, whoever was killed on the way.  Only the uid map and the limits
\* of --cgroup may be missing, when the parent died while the child waited.
ProgramIsolated ==
    init = "running" =>
        /\ {"user", "ns", "mounts", "root", "caps"} \subseteq layers
        /\ conf.seccomp => "seccomp" \in layers
        /\ conf.nfilter => "filter" \in layers
        /\ conf.mode = "run" => "vault" \in layers
        /\ \/ "map" \in layers /\ (conf.cgroup = "hard" => "cgroup" \in layers)
           \/ "parent" \in struck

\* A call that returned has left no process behind and no PID on the whitelist,
\* unless the child was killed from outside: PID 1 then outlives it.
NothingLeftRunning ==
    parent = "idle" =>
        /\ ~whitelist /\ ~ChildAlive
        /\ InitAlive => "child" \in struck

\* Between sessions the cipher directory is open only after a call that gave up
\* before the session began or could not seal it; a cgroup or a network pair is
\* there only if its removal, or the making of the cgroup, failed.  The host's
\* forwarding and NAT rule and a root that is not empty stay.
SessionScoped ==
    parent = "idle" =>
        /\ cipher = "open" => "cipher" \in left
        /\ held \subseteq {"jail_root", "nat"} \cup left

\* A call that returned leaves no process of its session, and nothing it could
\* have taken away, whichever of its paths it returned by.
NothingLeftBehind == NothingLeftRunning /\ SessionScoped

\* A step that could not be done is what the call reports, through two exits and
\* two waits.  run_isolated reports every one; vault_sandbox_open returns OK for
\* those it has no code for: an old root that cannot be detached, capabilities,
\* seccomp and exec.
FailureReported ==
    parent = "idle" /\ failed # "none" /\ struck = {} =>
        IF conf.mode = "run" THEN result \notin {"program", "none"}
        ELSE /\ failed \in {"ns", "clone", "root", "proc"} => result \notin {"ERR_OK", "none"}
             /\ failed = "user" => result = "ERR_PERM_DENIED"

\* A session under way comes to an end, or to a program that runs, whichever
\* step failed and whoever was killed.
SessionEnds == ~Quiet ~> (Quiet \/ init = "running")
=============================================================================
