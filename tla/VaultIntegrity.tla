--------------------------- MODULE VaultIntegrity ---------------------------
(***************************************************************************)
(* The integrity monitor of one vault: the file hash map and its scans     *)
(* (vault_monitor.c), the alert with its escalation and its resolution,    *)
(* the monitor thread that runs only in a privileged process, and the      *)
(* record catalog_save keeps of them across crashes and restarts.          *)
(*                                                                         *)
(* Time is kept as what the code compares: whether an entry was last seen  *)
(* in the current second (last_seen against scan_start) and the seconds    *)
(* since the last reminder (now - last_alerted).  Every call holds         *)
(* g_monitor.lock from end to end, so a call is one step.  File modes      *)
(* (vault_enforce_readonly) and the reminder's text are left out.  Any     *)
(* save and any chmod may fail; most callers do not look.                  *)
(***************************************************************************)
EXTENDS Integers, Sequences, FiniteSetsExt

CONSTANTS
    File,            \* names of files in the vault's directory
    Content,         \* what a file may hold; SHA-256 tells contents apart
    Type,            \* "NORMAL" or "PROTECTED" (v->type, fixed when created)
    ALERT_INTERVALS, \* seconds between reminders, the last one repeating
    FirstDisks,      \* bound: what the files may be before the first scan
    MaxChanges       \* bound: changes made to the files

ASSUME IntegrityAssumption ==
    /\ ALERT_INTERVALS \in Seq(Nat \ {0})
    /\ ALERT_INTERVALS # <<>>
    /\ Type \in {"NORMAL", "PROTECTED"}
    /\ MaxChanges \in Nat
    /\ Content \cap {"gone", "none"} = {}
    /\ FirstDisks \subseteq [File -> Content \cup {"gone"}]

VARIABLES
    disk,     \* File -> Content, or Gone: absent or impossible to hash
    dir,      \* mode of v->path: "0700" or "0000"
    mem,      \* the Vault record of the running process
    saved,    \* the record in catalog.dat
    up,       \* the process runs
    root,     \* it is privileged: fanotify works and modes do not bind it
    monitor,  \* the monitor thread: "none", "starting", "running"
    recent,   \* history: files changed in the current second
    unseen,   \* history: files changed since a scan looked a second later
    changes,  \* number of changes so far
    lapse,    \* history: the last save of the alert failed, or the resolution's chmod
    denied    \* history: the last step was an escalation whose chmod failed

vars == <<disk, dir, mem, saved, up, root, monitor, recent, unseen, changes, lapse, denied>>

Gone == "gone"
NoEntry == [hash |-> "none", base |-> "none", modified |-> FALSE, fresh |-> FALSE]
Never == -1

\* FileEntry; `base` is history: the content registered or last accepted by
\* the owner, which the code does not keep.
Entry == [hash : Content, base : Content, modified : BOOLEAN, fresh : BOOLEAN]

LongestInterval == Max({ALERT_INTERVALS[i] : i \in DOMAIN ALERT_INTERVALS})

\* first_triggered # 0, now - last_alerted (or Never) and interval_idx.
Alert == [raised : BOOLEAN, age : Never..LongestInterval,
          interval_idx : 1..Len(ALERT_INTERVALS)]

Quiet == [raised |-> FALSE, age |-> Never, interval_idx |-> 1]

Record == [status : {"OK", "ALERT", "LOCKED"}, alert : Alert,
           entry : [File -> Entry \cup {NoEntry}]]

Tracked(r) == {f \in File : r.entry[f] # NoEntry}
Present == {f \in File : disk[f] \in Content}

Init ==
    /\ disk \in FirstDisks
    /\ dir = "0700"
    /\ mem = [status |-> "OK", alert |-> Quiet, entry |-> [f \in File |-> NoEntry]]
    /\ saved = mem
    /\ up = FALSE /\ root = FALSE /\ monitor = "none"
    /\ recent = {} /\ unseen = File /\ changes = 0
    /\ lapse = FALSE /\ denied = FALSE

\* catalog_save of r: it is in the file or, on ERR_IO, the file is as it was.
Save(r) ==
    \/ saved' = r /\ lapse' = (lapse /\ ~r.alert.raised)
    \/ saved' = saved /\ lapse' = (lapse \/ (r.alert.raised /\ ~saved.alert.raised))

-----------------------------------------------------------------------------
(* The scan and the alert.                                                 *)

\* opendir(v->path): mode 0000 stops everybody but a privileged process.
CanOpen == dir = "0700" \/ root

\* What the file loop of a scan makes of the entry of a file with content c.
Hashed(e, c) ==
    [hash |-> c, fresh |-> TRUE,
     base |-> IF e = NoEntry THEN c ELSE e.base,
     modified |-> e # NoEntry /\ c # e.hash]

\* The file loop over the files of S.
Rehashed(r, S) ==
    [r EXCEPT !.entry = [f \in File |-> IF f \in S THEN Hashed(@[f], disk[f]) ELSE @[f]]]

\* The tracked files a scan of this second did not come by.
Missing(r) == {f \in Tracked(r) : ~r.entry[f].fresh}

Flagged(r, S) ==
    [r EXCEPT !.entry = [f \in File |->
        IF f \in S THEN [@[f] EXCEPT !.modified = TRUE] ELSE @[f]]]

\* Files whose flag a scan turns on: each of them calls alert_trigger.
NewlyModified == {f \in Present \cap Tracked(mem) :
                      disk[f] # mem.entry[f].hash /\ ~mem.entry[f].modified}
NewlyMissing == {f \in Missing(Rehashed(mem, Present)) : ~mem.entry[f].modified}

alert_trigger(r) ==
    [r EXCEPT !.status = "ALERT",
              !.alert = IF @.raised THEN @
                        ELSE [@ EXCEPT !.raised = TRUE, !.interval_idx = 1]]

Alerted(r) == IF NewlyModified \cup NewlyMissing = {} THEN r ELSE alert_trigger(r)

\* Faulty variant: only the files that are there are looked at.
Scanned_present == Alerted(Rehashed(mem, Present))

\* The record after a scan that could open the directory.
Scanned ==
    LET read == Rehashed(mem, Present)
    IN  Alerted(Flagged(read, Missing(read)))

\* Faulty variant: alert_trigger leaves the saving to its callers.
SavedMidScan_not == {saved}

\* alert_trigger saves while the scan is under way: in the file loop, when it
\* comes to a modified file g, whose new hash is not stored yet and after which
\* readdir returns the files of `later`; or when some of the missing are flagged.
SavedMidScan ==
    LET read == Rehashed(mem, Present)
        some == {S \in SUBSET Missing(read) : S \cap NewlyMissing # {}}
    IN  (UNION {{alert_trigger(Flagged(Rehashed(mem, Present \ ({g} \cup later)), {g})) :
                     later \in SUBSET (Present \ {g})} : g \in NewlyModified})
        \cup {alert_trigger(Flagged(read, S)) : S \in some}

\* What a scan that flags something leaves in the file.
SaveAlerts == \E r \in SavedMidScan : Save(r)

Looked == unseen' = IF CanOpen THEN recent ELSE unseen

-----------------------------------------------------------------------------
(* The monitor thread.                                                     *)

\* The scan of every vault when the thread starts: nothing is saved after it.
monitor_starts ==
    /\ up /\ monitor = "starting"
    /\ monitor' = "running"
    /\ mem' = Scanned
    /\ IF NewlyModified \cup NewlyMissing = {}
       THEN UNCHANGED <<saved, lapse>>
       ELSE SaveAlerts
    /\ Looked
    /\ denied' = FALSE
    /\ UNCHANGED <<disk, dir, up, root, recent, changes>>

\* The reminders of alert_check_escalation.
Interval(a) == ALERT_INTERVALS[a.interval_idx]

\* Faulty variant: the index runs past the end of ALERT_INTERVALS.
Escalated_past(a) == [a EXCEPT !.age = 0, !.interval_idx = @ + 1]

Escalated(a) == [a EXCEPT !.age = 0,
                          !.interval_idx = Min({@ + 1, Len(ALERT_INTERVALS)})]

first_reminder ==
    /\ mem.alert.age = Never
    /\ mem' = [mem EXCEPT !.alert.age = 0]
    /\ UNCHANGED dir
    /\ denied' = FALSE

\* Faulty variant: a reminder is given and the directory stays open.
next_reminder_open ==
    /\ mem.alert.age # Never
    /\ mem.alert.age >= Interval(mem.alert)
    /\ mem' = [mem EXCEPT !.alert = Escalated(@)]
    /\ UNCHANGED dir
    /\ denied' = FALSE

next_reminder ==
    /\ mem.alert.age # Never
    /\ mem.alert.age >= Interval(mem.alert)
    /\ mem' = [mem EXCEPT !.alert = Escalated(@)]
    /\ \/ dir' = "0000" /\ denied' = FALSE
       \/ dir' = dir /\ denied' = TRUE

\* One turn of the thread's loop.  It saves nothing.
alert_check_escalation ==
    /\ up /\ monitor = "running"
    /\ mem.status = "ALERT"
    /\ first_reminder \/ next_reminder
    /\ UNCHANGED <<disk, saved, up, root, monitor, recent, unseen, changes, lapse>>

-----------------------------------------------------------------------------
(* The calls.                                                              *)

\* vault_scan_ffi and vault_scan_report_ffi: scan, then save in any case.
vault_scan_ffi ==
    /\ up
    /\ mem' = IF CanOpen THEN Scanned ELSE mem
    /\ \/ Save(mem')
       \/ CanOpen /\ NewlyModified \cup NewlyMissing # {} /\ SaveAlerts
    /\ Looked
    /\ denied' = FALSE
    /\ UNCHANGED <<disk, dir, up, root, monitor, recent, changes>>

\* The process is gone; what it knew is gone with it.
Ended ==
    /\ up' = FALSE /\ root' = FALSE /\ monitor' = "none"
    /\ mem' = saved'
    /\ unseen' = File
    /\ denied' = FALSE
    /\ UNCHANGED <<disk, dir, recent, changes>>

\* The process dies after some alert of the scan and before its end.
scan_killed ==
    /\ up /\ CanOpen
    /\ NewlyModified \cup NewlyMissing # {}
    /\ SaveAlerts
    /\ Ended

\* The owner accepts the entries as they are.
Accepted(e) == IF e = NoEntry THEN e ELSE [e EXCEPT !.modified = FALSE, !.base = e.hash]

\* alert_resolve: a protected vault wants its password, which a LOCKED one
\* refuses; a normal vault is set to OK whatever it was.  Nothing is undone
\* when the chmod or the save fails.
Resolved(entry) ==
    /\ up
    /\ Type = "PROTECTED" => mem.status # "LOCKED"
    /\ mem' = [status |-> "OK", alert |-> Quiet, entry |-> entry]
    /\ saved' \in {mem', saved}
    /\ dir' \in {"0700", dir}
    /\ lapse' = (dir' = "0000")
    /\ denied' = FALSE
    /\ unseen' = unseen \cup {f \in Tracked(mem) : mem.entry[f].modified}
    /\ UNCHANGED <<disk, up, root, monitor, recent, changes>>

\* Faulty variant: only the alert is reset and the files keep their flags.
alert_resolve_flags == Resolved(mem.entry)

alert_resolve == Resolved([f \in File |-> Accepted(mem.entry[f])])

\* The wrong password that uses up the attempts, in any call that asks for one.
auth_verify_password ==
    /\ up /\ Type = "PROTECTED" /\ mem.status # "LOCKED"
    /\ mem' = [mem EXCEPT !.status = "LOCKED"]
    /\ Save(mem')
    /\ denied' = FALSE
    /\ UNCHANGED <<disk, dir, up, root, monitor, recent, unseen, changes>>

\* engine_validate finds the labyrinth damaged (VaultEngine).
engine_validate ==
    /\ up
    /\ mem' = alert_trigger(mem)
    /\ Save(mem')
    /\ denied' = FALSE
    /\ UNCHANGED <<disk, dir, up, root, monitor, recent, unseen, changes>>

\* vault_ffi_init: the record loaded is the one Ended left; the thread exists only where fanotify
\* does, and not when pthread_create fails.
vault_ffi_init(r) ==
    /\ ~up
    /\ up' = TRUE /\ root' = r
    /\ monitor' \in IF r THEN {"none", "starting"} ELSE {"none"}
    /\ denied' = FALSE
    /\ UNCHANGED <<disk, dir, mem, saved, recent, unseen, changes, lapse>>

vault_ffi_shutdown ==
    /\ up
    /\ Save(mem)
    /\ Ended

Crash ==
    /\ up
    /\ UNCHANGED <<saved, lapse>>
    /\ Ended

-----------------------------------------------------------------------------
(* The world.                                                              *)

\* Somebody writes, creates or removes a file behind the monitor's back; to
\* the scan a FUSE mount or unmount over v->path looks the same.
Change(f, c) ==
    /\ changes < MaxChanges
    /\ disk[f] # c
    /\ disk' = [disk EXCEPT ![f] = c]
    /\ recent' = recent \cup {f}
    /\ unseen' = unseen \cup {f}
    /\ changes' = changes + 1
    /\ denied' = FALSE
    /\ UNCHANGED <<dir, mem, saved, up, root, monitor, lapse>>

Aged(r) ==
    [r EXCEPT !.alert.age = IF @ = Never THEN @ ELSE Min({@ + 1, LongestInterval}),
              !.entry = [f \in File |-> IF @[f] = NoEntry THEN @[f]
                                        ELSE [@[f] EXCEPT !.fresh = FALSE]]]

\* A second passes.
Tick ==
    /\ mem' = Aged(mem)
    /\ saved' = Aged(saved)
    /\ recent' = {}
    /\ denied' = FALSE
    /\ UNCHANGED <<disk, dir, up, root, monitor, unseen, changes, lapse>>

Next ==
    \/ monitor_starts
    \/ alert_check_escalation
    \/ vault_scan_ffi
    \/ scan_killed
    \/ alert_resolve
    \/ auth_verify_password
    \/ engine_validate
    \/ \E r \in BOOLEAN : vault_ffi_init(r)
    \/ vault_ffi_shutdown
    \/ Crash
    \/ \E f \in File, c \in Content \cup {Gone} : Change(f, c)
    \/ Tick

\* Seconds pass, and the monitor's select returns at least every five of them.
Fairness == WF_vars(Tick) /\ WF_vars(alert_check_escalation)

Spec == Init /\ [][Next]_vars /\ Fairness

-----------------------------------------------------------------------------
(* Properties.                                                             *)

TypeOK ==
    /\ disk \in [File -> Content \cup {Gone}]
    /\ dir \in {"0700", "0000"}
    /\ mem \in Record /\ saved \in Record
    /\ up \in BOOLEAN /\ root \in BOOLEAN
    /\ monitor \in {"none", "starting", "running"}
    /\ recent \subseteq File /\ unseen \subseteq File
    /\ changes \in 0..MaxChanges
    /\ lapse \in BOOLEAN /\ denied \in BOOLEAN

\* The monitor never forgets: while a tracked file is flagged, or its stored
\* hash is not the one the owner registered or accepted, the vault is not OK,
\* through further scans (which overwrite the hash), crashes in the middle of
\* one, restarts, lockouts and resolutions (monitor_scan_vault, alert_resolve).
AlertStands ==
    \A r \in {mem, saved} : \A f \in Tracked(r) :
        (r.entry[f].modified \/ r.entry[f].hash # r.entry[f].base) => r.status # "OK"

\* A scan misses nothing that was there for a second: every file that did not
\* change since is registered with its present content, and a tracked file
\* that is gone is flagged (monitor_scan_vault, both of its loops).
ScanMissesNothing ==
    up => \A f \in File \ unseen :
              IF disk[f] = Gone
              THEN mem.entry[f] = NoEntry \/ mem.entry[f].modified
              ELSE mem.entry[f] # NoEntry /\ mem.entry[f].hash = disk[f]

\* A directory the escalation closed has its alert on record in catalog.dat,
\* although the escalation itself saves nothing and nobody looks at the result
\* of alert_trigger's save: whatever process comes next, the owner finds the
\* alert whose resolution opens it again.  The exceptions are the failures
\* themselves: an alert whose last save failed, and a resolution whose chmod
\* did not open the directory.
ClosedIsOnRecord == dir = "0000" /\ ~lapse => saved.alert.raised

\* An alert nobody resolves closes the directory, or fails in the attempt
\* (alert_check_escalation logs it and goes on), as long as the process with
\* the monitor thread lives and the vault is not locked.
AlertEscalates ==
    (up /\ monitor = "running" /\ mem.status = "ALERT")
        ~> (dir = "0000" \/ denied \/ ~up \/ mem.status # "ALERT")
=============================================================================
