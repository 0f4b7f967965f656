------------------------------- MODULE Launch -------------------------------
(***************************************************************************)
(* Spawning a Chromium and dropping its connection                         *)
(* (src/crates/amber-core/src/cdp.rs, PipeCdp::spawn_with_limits,          *)
(* win_spawn::spawn and Drop), by several threads of one process at once.  *)
(* What matters is who holds which end of which pipe: a fork copies every  *)
(* end that is open in the process, an exec keeps those that are mapped to *)
(* file descriptors 3 and 4, and CreateProcessW passes on every end that   *)
(* is marked inheritable, whichever launch marked it.                      *)
(*                                                                         *)
(* A definition whose name starts with Bug is a seeded defect the model    *)
(* checker must detect; no specification uses it.                          *)
(***************************************************************************)
EXTENDS FiniteSets

CONSTANT Launches

VARIABLES
  platform,  \* "unix" or "windows"
  launched,  \* where each launch is
  ends,      \* the ends of its pipes that are open in this process
  chromium,  \* its child: "none", "forked", "refused" by exec, "runs", "dead"
  copies,    \* the ends its child holds, as <<launch, end>>
  profiles   \* launches whose user-data-dir exists

launchVars == <<platform, launched, ends, chromium, copies, profiles>>

Ours == {"cmd_write", "resp_read"}
Theirs == {"cmd_read", "resp_write"}

LaunchInit ==
  /\ platform \in {"unix", "windows"}
  /\ launched = [l \in Launches |-> "idle"]
  /\ ends = [l \in Launches |-> {}]
  /\ chromium = [l \in Launches |-> "none"]
  /\ copies = [l \in Launches |-> {}]
  /\ profiles = {}

Goes(l, from, to) == launched[l] = from /\ launched' = [launched EXCEPT ![l] = to]
Keeps(l, kept) == ends' = [ends EXCEPT ![l] = kept]
Child(l, state, held) ==
  chromium' = [chromium EXCEPT ![l] = state] /\ copies' = [copies EXCEPT ![l] = held]

\* An error return drops the ends that are still open, and nothing else.
ReturnsErr(l, from) ==
  /\ Goes(l, from, "failed") /\ Keeps(l, {})
  /\ UNCHANGED <<platform, chromium, copies, profiles>>

OpenPipes(l) ==
  \/ ReturnsErr(l, "idle")
  \/ /\ Goes(l, "idle", "piped") /\ Keeps(l, Ours \cup Theirs)
     /\ UNCHANGED <<platform, chromium, copies, profiles>>

MakeProfile(l) ==
  \/ ReturnsErr(l, "piped")
  \/ /\ Goes(l, "piped", "ready") /\ profiles' = profiles \cup {l}
     /\ UNCHANGED <<platform, ends, chromium, copies>>

\* Unix: Command::spawn forks; the child has a copy of every open end.
Fork(l) ==
  /\ platform = "unix" /\ Goes(l, "ready", "created")
  /\ Child(l, "forked", UNION {{k} \X ends[k] : k \in Launches})
  /\ UNCHANGED <<platform, ends, profiles>>

BugMapped(l) == copies[l]   \* pipes without O_CLOEXEC

\* configure_pipe_fds: the ends mapped to 3 and 4 survive the exec.
Mapped(l) == {l} \X Theirs

Exec(l) ==
  /\ chromium[l] = "forked"
  /\ Child(l, "runs", Mapped(l)) \/ Child(l, "refused", {})
  /\ UNCHANGED <<platform, launched, ends, profiles>>

\* Windows: make_inheritable.
MarkInheritable(l) ==
  /\ platform = "windows" /\ Goes(l, "ready", "inheritable")
  /\ UNCHANGED <<platform, ends, chromium, copies, profiles>>

\* bInheritHandles = TRUE: every handle of the process that is inheritable.
CreateProcess(l) ==
  \/ ReturnsErr(l, "inheritable")
  \/ /\ Goes(l, "inheritable", "created")
     /\ Child(l, "runs", UNION {{k} \X (ends[k] \cap Theirs) :
                                k \in {k \in Launches : launched[k] \in {"inheritable", "created"}}})
     /\ UNCHANGED <<platform, ends, profiles>>

BugSpawned(l) ==   \* the Command outlives the block, with the ends moved into it
  /\ chromium[l] # "forked"
  /\ \/ chromium[l] = "refused" /\ ReturnsErr(l, "created")
     \/ /\ chromium[l] # "refused" /\ Goes(l, "created", "spawned")
        /\ UNCHANGED <<platform, ends, chromium, copies, profiles>>

\* The child has executed, or could not: our copies of its ends are dropped.
Spawned(l) ==
  /\ chromium[l] # "forked"
  /\ \/ chromium[l] = "refused" /\ ReturnsErr(l, "created")
     \/ /\ chromium[l] # "refused" /\ Goes(l, "created", "spawned") /\ Keeps(l, Ours)
        /\ UNCHANGED <<platform, chromium, copies, profiles>>

\* The reader thread gets resp_read, or cannot be started: then the child is
\* neither killed nor waited for.
StartReader(l) ==
  \/ ReturnsErr(l, "spawned")
  \/ Goes(l, "spawned", "running") /\ UNCHANGED <<platform, ends, chromium, copies, profiles>>

\* Drop: the child is killed and waited for, ...
Kill(l) ==
  /\ Goes(l, "running", "joining") /\ Child(l, "dead", {})
  /\ UNCHANGED <<platform, ends, profiles>>

\* Nobody can write to the pipe any more.
EndOfFile(l, write) ==
  write \notin ends[l] /\ \A k \in Launches : <<l, write>> \notin copies[k]

\* ... the reader, which ends at the end of the response pipe, is joined, and
\* the profile is removed.
Join(l) ==
  /\ EndOfFile(l, "resp_write")
  /\ Goes(l, "joining", "gone") /\ Keeps(l, {}) /\ profiles' = profiles \ {l}
  /\ UNCHANGED <<platform, chromium, copies>>

\* Chromium exits when its command pipe ends, and may crash or be killed at a
\* resource limit.
ChromiumExits(l) ==
  /\ chromium[l] = "runs" /\ EndOfFile(l, "cmd_write") /\ Child(l, "dead", {})
  /\ UNCHANGED <<platform, launched, ends, profiles>>
ChromiumDies(l) ==
  /\ chromium[l] = "runs" /\ Child(l, "dead", {})
  /\ UNCHANGED <<platform, launched, ends, profiles>>

\* What goes on by itself once a launch has begun.
LaunchStep(l) ==
  \/ MakeProfile(l) \/ Fork(l) \/ MarkInheritable(l) \/ CreateProcess(l)
  \/ Spawned(l) \/ StartReader(l) \/ Join(l)

\* A launch that has begun goes on, and so does its child; nobody has to begin
\* a launch or drop a connection.
LaunchFair ==
  \A l \in Launches :
    /\ WF_launchVars(LaunchStep(l))
    /\ WF_launchVars(Exec(l))
    /\ WF_launchVars(ChromiumExits(l))

LaunchNext ==
  \E l \in Launches :
    OpenPipes(l) \/ LaunchStep(l) \/ Exec(l) \/ Kill(l) \/ ChromiumExits(l) \/ ChromiumDies(l)

LaunchSpec == LaunchInit /\ [][LaunchNext]_launchVars

-----------------------------------------------------------------------------
\* Safety

\* Types; and a profile exists from its creation until its launch is dropped,
\* or for good if its launch failed.
LaunchTypeOK ==
  /\ platform \in {"unix", "windows"}
  /\ launched \in [Launches -> {"idle", "piped", "ready", "inheritable", "created", "spawned",
                                "running", "joining", "gone", "failed"}]
  /\ ends \in [Launches -> SUBSET (Ours \cup Theirs)]
  /\ chromium \in [Launches -> {"none", "forked", "refused", "runs", "dead"}]
  /\ copies \in [Launches -> SUBSET (Launches \X (Ours \cup Theirs))]
  /\ profiles \subseteq {l \in Launches : launched[l] \notin {"idle", "piped", "gone"}}

\* What a drop waits for (cdp.rs:871): while the reader has no end of file
\* after the kill, however launches overlap, some other launch is the reason: a
\* child of it that has not executed yet, or, on Windows, its Chromium, which
\* has inherited the pipe.  Neither the process itself nor the Chromium that
\* was killed ever holds the drop up.
DropWaitsForOthers ==
  \A l \in Launches :
    launched[l] = "joining" /\ ~EndOfFile(l, "resp_write") =>
      \E k \in Launches \ {l} :
        chromium[k] = "forked" \/ (platform = "windows" /\ chromium[k] = "runs")

-----------------------------------------------------------------------------
\* Liveness

\* Dropping a connection returns (cdp.rs:871), whatever else is being launched.
\* On Windows another Chromium, launched between make_inheritable and the end of
\* spawn, holds the pipe too, and the drop may wait for it to go.
DropReturns ==
  \A l \in Launches :
    launched[l] = "joining" ~>
      \/ launched[l] = "gone"
      \/ platform = "windows" /\ \E k \in Launches \ {l} : chromium[k] = "runs"

\* The Chromium of a launch that failed after the spawn (cdp.rs:390) is not
\* killed; it goes because its command pipe ends.
FailedLaunchLeavesNone ==
  \A l \in Launches : launched[l] = "failed" ~> chromium[l] # "runs"

\* Nothing of a launch goes on for ever once it has failed or is dropped: not
\* the drop that waits for the reader, nor the child nobody killed.
LaunchesEnd == DropReturns /\ FailedLaunchLeavesNone

=============================================================================
