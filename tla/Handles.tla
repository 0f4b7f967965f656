------------------------------ MODULE Handles ------------------------------
(***************************************************************************)
(* The C ABI (src/crates/amber-core/src/capi.rs) under a caller that keeps *)
(* to its contract: it passes live handles, and frees what an out pointer  *)
(* holds after each call, whatever the call returned (a null pointer is    *)
(* ignored).  Captures and renderings succeed or fail as they do.          *)
(*                                                                         *)
(* A definition whose name starts with Bug is a seeded defect the model    *)
(* checker must detect; no specification uses it.                          *)
(***************************************************************************)
EXTENDS Naturals, FiniteSets

CONSTANTS
  Null,         \* the null pointer
  Blocks,       \* addresses an allocation may get
  Selectors,    \* format selectors, as the caller passes them
  Known,        \* those format_from_int knows
  MaxCalls      \* bound on the calls

ASSUME HandlesAssumption == Null \notin Blocks /\ Known \subseteq Selectors /\ MaxCalls \in Nat

VARIABLES
  heap,     \* what is allocated at each address: "free", "snapshot", "bytes", "string"
  out,      \* the caller's out pointer
  owed,     \* how the caller will free it: "none", "bytes", "string"
  handle,   \* the caller's snapshot
  code,     \* what the last call with this out pointer returned
  faults,   \* history: releases of what was not allocated, or not as such
  calls     \* calls so far

handleVars == <<heap, out, owed, handle, code, faults, calls>>

OK == 0
InvalidInput == 1
CaptureFailed == 2

HandlesInit ==
  /\ heap = [b \in Blocks |-> "free"]
  /\ out = Null /\ owed = "none" /\ handle = Null /\ code = OK /\ faults = 0 /\ calls = 0

Counted == calls < MaxCalls /\ calls' = calls + 1

\* Box::into_raw and CString::into_raw: the address the caller gets.
Allocated(kind, b) == heap[b] = "free" /\ heap' = [heap EXCEPT ![b] = kind]

BugFails(c) == code' = c /\ UNCHANGED <<out, heap>>   \* *out is left alone

\* A return behind the line that clears *out.
Fails(c) == code' = c /\ out' = Null /\ UNCHANGED heap

BytesOut == {"amber_capture", "amber_snapshot_render"}
OfSnapshot == {"amber_snapshot_render", "amber_snapshot_text", "amber_snapshot_save"}
EntryPoints ==
  BytesOut \cup OfSnapshot \cup {"amber_capture_markdown", "amber_capture_readable", "amber_save"}

\* The entry points that return a buffer, a text or a path: the arguments, the
\* work and, for a string, a conversion that an interior NUL fails.
Call(f) ==
  /\ owed = "none" /\ Counted
  /\ f \in OfSnapshot => handle # Null
  /\ owed' = IF f \in BytesOut THEN "bytes" ELSE "string"
  /\ \/ \E s \in Selectors, utf8 \in BOOLEAN : (s \notin Known \/ ~utf8) /\ Fails(InvalidInput)
     \/ Fails(CaptureFailed)
     \/ /\ code' = OK
        /\ \E b \in Blocks : Allocated(owed', b) /\ out' = b
  /\ UNCHANGED <<handle, faults>>

\* A null argument, which every entry point finds before it clears *out.  The
\* caller knows it got nothing to free.
NullArgument ==
  /\ owed = "none" /\ Counted
  /\ code' = InvalidInput
  /\ UNCHANGED <<heap, out, owed, handle, faults>>

\* amber_snapshot: all selectors must be known, and there must be one.
CallSnapshot ==
  /\ handle = Null /\ Counted
  /\ \/ UNCHANGED <<heap, handle>>
     \/ \E s \in SUBSET Known : s # {} /\ \E b \in Blocks : Allocated("snapshot", b) /\ handle' = b
  /\ UNCHANGED <<out, owed, code, faults>>

Releases(b, kind) ==
  IF b = Null THEN UNCHANGED <<heap, faults>>
  ELSE /\ heap' = [heap EXCEPT ![b] = "free"]
       /\ faults' = faults + IF heap[b] = kind THEN 0 ELSE 1

\* amber_string_free and amber_bytes_free; the pointer keeps its value.
FreeOutput ==
  /\ owed # "none" /\ owed' = "none"
  /\ Releases(out, owed)
  /\ UNCHANGED <<out, handle, code, calls>>

\* amber_snapshot_free: what was rendered from it stays valid.
FreeSnapshot ==
  /\ handle # Null /\ handle' = Null
  /\ Releases(handle, "snapshot")
  /\ UNCHANGED <<out, owed, code, calls>>

HandlesNext ==
  (\E f \in EntryPoints : Call(f)) \/ NullArgument \/ CallSnapshot \/ FreeOutput \/ FreeSnapshot

HandlesSpec == HandlesInit /\ [][HandlesNext]_handleVars

-----------------------------------------------------------------------------

HandlesTypeOK ==
  /\ heap \in [Blocks -> {"free", "snapshot", "bytes", "string"}]
  /\ out \in Blocks \cup {Null} /\ handle \in Blocks \cup {Null}
  /\ owed \in {"none", "bytes", "string"} /\ code \in {OK, InvalidInput, CaptureFailed}
  /\ faults \in Nat /\ calls \in 0..MaxCalls

Owned ==
  (IF owed = "none" THEN {} ELSE {<<out, owed>>}) \cup {<<handle, "snapshot">>}

\* A caller that frees what its out pointer holds after every call, failed ones
\* too, and reuses the pointer, frees nothing twice and nothing of another kind.
NeverFreedTwice == faults = 0

\* What is allocated is what the caller holds: nothing is leaked by a failure,
\* and an output outlives the snapshot it was rendered from.
AllocatedIsOwned ==
  {<<b, heap[b]>> : b \in {x \in Blocks : heap[x] # "free"}} = {p \in Owned : p[1] # Null}

\* Whatever calls return, each block is freed once in the end, and as what it is.
OwnershipExact == NeverFreedTwice /\ AllocatedIsOwned

-----------------------------------------------------------------------------
\* What a comment in the source says, and the code does not ensure.

\* "on error returns a non-zero code and sets *out to null".
ErrorClearsOut == code # OK => out = Null

=============================================================================
