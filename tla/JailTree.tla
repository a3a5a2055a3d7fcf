------------------------------ MODULE JailTree ------------------------------
(***************************************************************************)
(* The file system PID 1 of run_isolated builds for its program: the       *)
(* --ro, --rw and --blacklist paths in the order of the command line, then *)
(* the home, the display, the session bus and the rest, pivot_root, and    *)
(* the tmpfs on /tmp.  (module Sandbox has the processes around it.)       *)
(*                                                                         *)
(* The jail is the list of mounts made in it, oldest first, in which one   *)
(* that was taken away is "gone": a path shows what the newest mount at or *)
(* above it shows.  Some failures of a mount are fatal, most are not, and  *)
(* a --ro or --rw whose place in the jail cannot be prepared is skipped    *)
(* with a message.                                                         *)
(***************************************************************************)
EXTENDS Naturals, Sequences, FiniteSetsExt

CONSTANTS
    BindPaths,      \* paths of the home and of /usr the command line may bind
    MaxBinds,       \* bound of the model: their number (MAX_BINDS)
    MaxOptions,     \* bound of the model: options given together
    MaxLapses       \* bound of the model: failures that are let pass

VARIABLES
    asked,          \* what the command line asks for
    apart,          \* paths of the host that are file systems of their own
    pc, next,       \* the step of PID 1, and in the first one, the bind it is at
    table,          \* the mounts in the jail
    made,           \* files and directories the jail has under them
    hidden,         \* paths PID 1 has masked in its own tree
    skipped,        \* history: the binds that were passed over
    lapses          \* history: the later steps that failed and were let pass

jailVars == <<asked, apart, pc, next, table, made, hidden, skipped, lapses>>

\* $HOME with a user's file and the vaults of nuk4sd, /usr, $XDG_RUNTIME_DIR with
\* the socket of the session bus and the sound server, /tmp with the X sockets.
Below == [home  |-> {"home", "secret", "vaults"}, secret |-> {"secret"},
          vaults |-> {"vaults"}, usr |-> {"usr"}, run |-> {"run", "bus", "sound"},
          bus |-> {"bus"}, sound |-> {"sound"}, tmp |-> {"tmp", "x11"}, x11 |-> {"x11"},
          proc |-> {"proc"}]
Paths == DOMAIN Below
Above(p) == {q \in Paths : p \in Below[q]}

Switches == {"wayland", "x11", "no-dbus", "xdg-runtime", "audio", "dbus-session",
             "no-proc", "chroot", "landlock"}
Types == {"ro", "rw", "blacklist"}
Steps == <<"binds", "home", "wayland", "x11", "no-dbus", "proc", "gui", "xdg-runtime",
           "audio", "dbus-session", "root", "procfs", "tmp", "running">>
Graphical == asked.on \cap {"wayland", "x11"} # {}
\* An option that was not given, or that another one makes idle, has no step.
Applies(s) ==
    /\ s \in Switches => s \in asked.on
    /\ s \in {"audio", "dbus-session"} => "xdg-runtime" \notin asked.on
    /\ s = "dbus-session" => "no-dbus" \notin asked.on
    /\ s = "home" => asked.home # "off"
    /\ s = "proc" => "no-proc" \notin asked.on
    /\ s = "gui" => Graphical
After(s) ==
    LET at(t) == CHOOSE i \in 1 .. Len(Steps) : Steps[i] = t
    IN  Steps[Min({i \in 1 .. Len(Steps) : i > at(s) /\ Applies(Steps[i])})]

\* --preset of the graphical programs.
Preset == {"wayland", "x11", "audio", "dbus-session", "xdg-runtime"}

Configs ==
    {c \in [binds : UNION {[1 .. n -> [type : Types, path : BindPaths]] : n \in 0 .. MaxBinds},
            home : {"off", "ro", "rw"}, on : SUBSET Switches] :
        Cardinality(c.on) <= MaxOptions \/ (c.on = Preset /\ c.home = "rw")}

ASSUME JailAssumption == BindPaths \subseteq Paths /\ {MaxBinds, MaxOptions, MaxLapses} \subseteq Nat

-----------------------------------------------------------------------------
(* Mounts.                                                                 *)

\* What a mount shows at a path under it: the host's file to be read ("ro") or
\* written ("rw"), or a mask.  Remounting read-only reaches the mount it names and
\* not the file systems bound with it.
Face(p, m) ==
    IF m.kind \in {"tmpfs", "proc"} THEN IF p = m.at THEN m.kind ELSE "absent"
    ELSE IF p \in m.hid THEN "tmpfs"
    ELSE IF p # m.at /\ p \in apart THEN "rw"
    ELSE m.kind

\* What the jail shows at p: what the newest mount over it shows, or a file of its
\* own, or nothing.
MountsOver(p) == {i \in DOMAIN table : table[i].kind # "gone" /\ p \in Below[table[i].at]}
Shown(p) ==
    IF MountsOver(p) # {} THEN Face(p, table[Max(MountsOver(p))])
    ELSE IF p \in made THEN "own" ELSE "absent"

Visible(p) == Shown(p) \in {"ro", "rw"}
Present(p) == Shown(p) # "absent"

\* cli_mkdir_p: what is not there yet can be made in the jail's own directories,
\* not under a mask.
CanMake(p) == Present(p) \/ \A q \in Above(p) : Shown(q) \in {"own", "absent"}

\* umount2(p, MNT_DETACH): the newest mount at p goes, with those on top of it.
Unmounted(p) ==
    LET at == {i \in DOMAIN table : table[i].kind # "gone" /\ table[i].at = p}
        Gone(i) == i >= Max(at) /\ table[i].at \in Below[p]
    IN  IF at = {} THEN table
        ELSE [i \in DOMAIN table |-> IF Gone(i) THEN [table[i] EXCEPT !.kind = "gone"] ELSE table[i]]

MountedOn(tab, p, kind) == Append(tab, [at |-> p, kind |-> kind, hid |-> hidden])
Made(p) == made \cup Above(p)

Lapse == Cardinality(lapses) < MaxLapses /\ lapses' = lapses \cup {pc}
\* A mount on tab whose failure is ignored, as is that of the remount after it.
\* The outcomes that show less or more than was wanted are lapses.
Softly(tab, p, kind) ==
    \/ CanMake(p) /\ table' = MountedOn(tab, p, kind) /\ made' = Made(p) /\ UNCHANGED lapses
    \/ CanMake(p) /\ kind = "ro" /\ table' = MountedOn(tab, p, "rw") /\ made' = Made(p) /\ Lapse
    \/ table' = tab /\ made' = (IF CanMake(p) THEN Made(p) ELSE made) /\ Lapse

-----------------------------------------------------------------------------
JailInit ==
    /\ asked \in Configs
    /\ apart \in {{}, {"secret"}}
    /\ pc = "binds" /\ next = 1
    /\ table = <<>> /\ hidden = {} /\ skipped = {} /\ lapses = {}
    /\ made = {"proc", "tmp"} \cup (IF Graphical THEN {"usr"} ELSE {})

Advance == pc' = After(pc) /\ UNCHANGED <<asked, apart, next, skipped>>
Pass == Advance /\ UNCHANGED <<table, made, hidden, lapses>>
Step(s) == pc = s /\ Advance
Abort == pc' = "aborted" /\ UNCHANGED <<asked, apart, next, table, made, hidden, skipped, lapses>>

\* The bind at next is done, or passed over.
Bound(kind) ==
    LET p == asked.binds[next].path IN
    /\ table' = MountedOn(table, p, kind) /\ made' = Made(p) /\ next' = next + 1
    /\ UNCHANGED <<asked, apart, pc, hidden, skipped, lapses>>
Skip ==
    /\ skipped' = skipped \cup {next} /\ next' = next + 1
    /\ UNCHANGED <<asked, apart, pc, table, made, hidden, lapses>>

\* The mount failed or was undone; what was made for it stays.
Unbound ==
    /\ skipped' = skipped \cup {next} /\ next' = next + 1 /\ made' = Made(asked.binds[next].path)
    /\ UNCHANGED <<asked, apart, pc, table, hidden, lapses>>

At(type) == pc = "binds" /\ next <= Len(asked.binds) /\ asked.binds[next].type = type
Dst == asked.binds[next].path

\* --ro: skipped if its place cannot be made; a mount, a remount or a symbolic
\* link that goes wrong ends the sandbox.
bind_ro == At("ro") /\ (Skip \/ (CanMake(Dst) /\ (Bound("ro") \/ Abort)))
\* --rw: nothing that goes wrong does.
bind_rw == At("rw") /\ (Skip \/ (CanMake(Dst) /\ (Bound("rw") \/ Unbound)))
\* Faulty variant: a mask that cannot be installed is let pass.
bind_blacklist_soft ==
    /\ At("blacklist") /\ next' = next + 1
    /\ table' \in {table, MountedOn(table, Dst, "tmpfs")}
    /\ UNCHANGED <<asked, apart, pc, made, hidden, skipped, lapses>>
\* --blacklist: what is not in the jail yet is not masked.
bind_blacklist ==
    At("blacklist") /\ IF Present(Dst) THEN Bound("tmpfs") \/ Abort ELSE Skip
binds_done == pc = "binds" /\ next > Len(asked.binds) /\ Pass

\* --ro-home, --rw-home: with the latter the vaults of nuk4sd are hidden.
bind_home ==
    LET bare == Unmounted("vaults") IN
    /\ Step("home") /\ UNCHANGED hidden
    /\ \/ asked.home = "ro" /\ Softly(bare, "home", "ro")
       \/ asked.home = "rw" /\ CanMake("home") /\ made' = Made("home")
          /\ table' = MountedOn(MountedOn(bare, "home", "rw"), "vaults", "tmpfs")
          /\ UNCHANGED lapses
       \/ asked.home = "rw" /\ CanMake("home") /\ made' = Made("home")
          /\ table' = MountedOn(bare, "home", "rw") /\ Lapse
       \/ asked.home = "rw" /\ made' = made /\ table' \in {table, bare} /\ Lapse

bind_wayland == Step("wayland") /\ Softly(table, "run", "ro") /\ UNCHANGED hidden
bind_x11 == Step("x11") /\ Softly(table, "x11", "ro") /\ UNCHANGED hidden
bind_xdg_runtime == Step("xdg-runtime") /\ Softly(table, "run", "ro") /\ UNCHANGED hidden
bind_audio == Step("audio") /\ Softly(table, "sound", "rw") /\ UNCHANGED hidden
bind_dbus_session == Step("dbus-session") /\ Softly(table, "bus", "rw") /\ UNCHANGED hidden

\* Faulty variant: only the variable is unset.
mask_dbus_env == Step("no-dbus") /\ UNCHANGED <<table, made, hidden, lapses>>
\* The socket is masked where the host has it: in what is bound from now on.
mask_dbus ==
    /\ Step("no-dbus") /\ UNCHANGED <<table, made>>
    /\ \/ hidden' = hidden \cup {"bus"} /\ UNCHANGED lapses
       \/ Lapse /\ UNCHANGED hidden

mount_proc == Step("proc") /\ Softly(table, "proc", "proc") /\ UNCHANGED hidden

bind_gui == Step("gui") /\ Softly(Unmounted("usr"), "usr", "ro") /\ UNCHANGED hidden

\* vsb_pivot_root mounts a /proc of its own, chroot does not.
isolate_root ==
    /\ pc = "root" /\ UNCHANGED hidden
    /\ \/ Abort
       \/ Advance /\ IF {"no-proc", "chroot"} \cap asked.on = {} THEN Softly(table, "proc", "proc")
                     ELSE UNCHANGED <<table, made, lapses>>

\* Only with chroot is /proc mounted again; in every other case the newest goes.
remount_proc ==
    /\ Step("procfs") /\ UNCHANGED hidden
    /\ IF "chroot" \in asked.on /\ "no-proc" \notin asked.on
       THEN Softly(Unmounted("proc"), "proc", "proc")
       ELSE table' = Unmounted("proc") /\ UNCHANGED <<made, lapses>>

mount_tmp == Step("tmp") /\ Softly(table, "tmp", "tmpfs") /\ UNCHANGED hidden

\* The steps of PID 1 end here, with the program or without it.
Over == pc \in {"running", "aborted"} /\ UNCHANGED jailVars

JailNext ==
    \/ bind_ro \/ bind_rw \/ bind_blacklist \/ binds_done \/ bind_home
    \/ bind_wayland \/ bind_x11 \/ mask_dbus \/ mount_proc \/ bind_gui
    \/ bind_xdg_runtime \/ bind_audio \/ bind_dbus_session
    \/ isolate_root \/ remount_proc \/ mount_tmp \/ Over

JailSpec == JailInit /\ [][JailNext]_jailVars

-----------------------------------------------------------------------------
(* Landlock: the ruleset of landlock_apply.  A path may be accessed in the *)
(* ways that a rule for it or for a directory above it names.              *)

landlock_apply ==
    {[root |-> TRUE, at |-> {}, access |-> {"read", "write"}]}
    \cup {[root |-> FALSE, at |-> Below[asked.binds[i].path],
           access |-> IF asked.binds[i].type = "rw" THEN {"read", "write"} ELSE {"read"}] :
          i \in {j \in DOMAIN asked.binds : asked.binds[j].type # "blacklist"}}
    \cup (IF asked.home = "off" THEN {}
          ELSE {[root |-> FALSE, at |-> Below["home"],
                 access |-> IF asked.home = "ro" THEN {"read"} ELSE {"read", "write"}]})
Granted(p, way) ==
    "landlock" \in asked.on => \E r \in landlock_apply : (r.root \/ p \in r.at) /\ way \in r.access

CanRead(p) == Visible(p) /\ Granted(p, "read")
CanWrite(p) == Shown(p) = "rw" /\ Granted(p, "write")

-----------------------------------------------------------------------------
\* A later bind of the command line, or the home, covers the path of bind i; a
\* graphical session mounts /usr anew.
Covered(i) ==
    LET p == asked.binds[i].path IN
    \/ \E j \in DOMAIN asked.binds :
          j > i /\ j \notin skipped /\ asked.binds[j].type # "blacklist" /\ asked.binds[j].path \in Above(p)
    \/ asked.home # "off" /\ p \in Below["home"]
    \/ Graphical /\ p = "usr"

\* The last word on a path holds when the program runs.  Of what a --ro that was
\* acted on covers, only the file systems mounted below it can be written, which the
\* remount leaves as they are though cli_bind_recursive_ro names it recursive, and
\* what a later bind has opened again.  A --blacklist that found its target shows
\* nothing at or below it but what a later bind names.
LastWordHolds ==
    pc = "running" =>
        \A i \in DOMAIN asked.binds \ skipped :
            LET b == asked.binds[i]
                Reopened(q) == \E j \in DOMAIN asked.binds : j > i /\ asked.binds[j].path = q
            IN  ~Covered(i) =>
                /\ b.type = "ro" => \A q \in Below[b.path] :
                      CanWrite(q) => (q # b.path /\ q \in apart) \/ Reopened(q)
                /\ b.type = "blacklist" => \A q \in Below[b.path] : CanRead(q) => Reopened(q)

\* --no-dbus hides the socket of the session bus in everything bound after it.  What
\* --wayland binds is bound before: with both options, and no --xdg-runtime to cover
\* it again, the program reads the socket that --no-dbus was given to hide.
BusHidden ==
    pc = "running" /\ "no-dbus" \in asked.on /\ "no-dbus" \notin lapses /\ CanRead("bus") =>
        "wayland" \in asked.on /\ "xdg-runtime" \notin asked.on \ lapses

\* --rw-home does not open the vaults of nuk4sd to the program.
VaultsHidden ==
    pc = "running" /\ asked.home = "rw" /\ "home" \notin lapses => ~CanRead("vaults")

\* The program has a /proc of its own namespace exactly when it was not declined and
\* enough mounts of it succeeded.  With chroot that is the last one; otherwise one
\* of two is taken away again, and if either failed the program has none.
ProcAsAsked ==
    pc = "running" =>
        (Shown("proc") = "proc" <=>
            /\ "no-proc" \notin asked.on
            /\ IF "chroot" \in asked.on THEN "procfs" \notin lapses
               ELSE {"proc", "root"} \cap lapses = {})

\* What each of the other options comes to, whatever is given together with it and
\* whichever mounts fail.
OptionsHonoured == BusHidden /\ VaultsHidden /\ ProcAsAsked

\* FLAGS_CHEATSHEET.md: --blacklist blinds the program completely for the path.
BlacklistBlinds ==
    pc = "running" =>
        \A i \in DOMAIN asked.binds : asked.binds[i].type = "blacklist" => ~CanRead(asked.binds[i].path)
=============================================================================
