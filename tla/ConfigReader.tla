---------------------------- MODULE ConfigReader ----------------------------
(***************************************************************************)
(* CPAConfigReader.Snapshot (config.go): the client API keys of CPA's own  *)
(* configuration file, kept between calls for as long as the file's        *)
(* modification time and size stay the same.  The file is looked at before *)
(* the mutex is taken and read while it is held, and CPA rewrites it when  *)
(* it likes.                                                               *)
(*                                                                         *)
(* The file is its history: version v of it holds contents[v].  Its        *)
(* modification time and size are its version: no two versions share them. *)
(* Under the mutex only the read of the file touches what others change,   *)
(* so the critical section is one action.                                  *)
(***************************************************************************)
EXTENDS Naturals, Sequences

CONSTANTS
    Requests,    \* callers of Snapshot
    Keys,        \* client API keys
    Written,     \* what CPA may write to the file
    MaxRewrites  \* bound on the rewrites of the file

\* A file that is malformed, or whose client keys are not a list, cannot be decoded.
Files == [state : {"list", "malformed", "missing"}, keys : SUBSET Keys]

ASSUME WrittenAreFiles == Written \subseteq Files
ASSUME RewriteBound == MaxRewrites \in Nat

VARIABLES
    contents,  \* the versions of the file
    cache,     \* modTime and size, loaded and value of the reader
    snap       \* the call of each request

readerVars == <<contents, cache, snap>>

Version == Len(contents)
File    == contents[Version]

At(pc, stamp, version) == [pc |-> pc, stamp |-> stamp, version |-> version]

NoCall == At("out", 0, 0)

\* The keys a returned snapshot lists.
Listed(r) == contents[snap[r].version].keys

-----------------------------------------------------------------------------
ReaderInit ==
    /\ contents \in {<<f>> : f \in Written}
    /\ cache = [loaded |-> FALSE, stamp |-> 0, version |-> 0]
    /\ snap = [r \in Requests |-> NoCall]

\* The file is looked at; without one the call fails.
Stat(r) ==
    /\ snap[r].pc = "out"
    /\ snap' = [snap EXCEPT ![r] = IF File.state = "missing"
                                   THEN At("failed", 0, 0)
                                   ELSE At("looked", Version, 0)]
    /\ UNCHANGED <<contents, cache>>

Current(r) == cache.loaded /\ cache.stamp = snap[r].stamp

\* Mutant: what was read once is kept for good.
Kept_onceLoaded(r) ==
    /\ snap[r].pc = "looked"
    /\ cache.loaded
    /\ snap' = [snap EXCEPT ![r].pc = "returned", ![r].version = cache.version]
    /\ UNCHANGED <<contents, cache>>

\* The file looks as it did when it was read: the kept value is returned.
Kept(r) ==
    /\ snap[r].pc = "looked"
    /\ Current(r)
    /\ snap' = [snap EXCEPT ![r].pc = "returned", ![r].version = cache.version]
    /\ UNCHANGED <<contents, cache>>

\* The file is read as it is now, and kept as what was looked at.
Read(r) ==
    /\ snap[r].pc = "looked"
    /\ ~Current(r)
    /\ File.state = "list"
    /\ cache' = [loaded |-> TRUE, stamp |-> snap[r].stamp, version |-> Version]
    /\ snap' = [snap EXCEPT ![r].pc = "returned", ![r].version = Version]
    /\ UNCHANGED contents

\* Mutant: the file is noted before it is decoded.
ReadFails_stamped(r) ==
    /\ snap[r].pc = "looked"
    /\ ~Current(r)
    /\ File.state # "list"
    /\ cache' = [cache EXCEPT !.stamp = snap[r].stamp]
    /\ snap' = [snap EXCEPT ![r].pc = "failed"]
    /\ UNCHANGED contents

\* A file that cannot be read or decoded leaves the kept value alone.
ReadFails(r) ==
    /\ snap[r].pc = "looked"
    /\ ~Current(r)
    /\ File.state # "list"
    /\ snap' = [snap EXCEPT ![r].pc = "failed"]
    /\ UNCHANGED <<contents, cache>>

Snapshot(r) == Stat(r) \/ Kept(r) \/ Read(r) \/ ReadFails(r)

\* The caller is done with what Snapshot returned.
Use(r) ==
    /\ snap[r].pc \in {"returned", "failed"}
    /\ snap' = [snap EXCEPT ![r] = NoCall]
    /\ UNCHANGED <<contents, cache>>

\* External: CPA, or its operator, rewrites the file.
Rewrite ==
    /\ Version <= MaxRewrites
    /\ \E f \in Written \ {File} : contents' = Append(contents, f)
    /\ UNCHANGED <<cache, snap>>

ReaderNext ==
    \/ \E r \in Requests : Snapshot(r) \/ Use(r)
    \/ Rewrite

ReaderSpec == ReaderInit /\ [][ReaderNext]_readerVars

-----------------------------------------------------------------------------
ReaderTypeOK ==
    /\ contents \in Seq(Files)
    /\ cache \in [loaded : BOOLEAN, stamp : Nat, version : Nat]
    /\ snap \in [Requests -> [pc : {"out", "looked", "returned", "failed"},
                              stamp : Nat, version : Nat]]

\* What Snapshot returns was in the file at some moment of the call: the
\* version returned is no older than the one the call looked at, whoever read
\* the file in between and whatever was looked at before it was rewritten
\* (config.go, 380 to 391 and 441 to 444).
SnapshotIsCurrent ==
    \A r \in Requests : snap[r].pc = "returned" =>
        /\ snap[r].version \in snap[r].stamp .. Version
        /\ contents[snap[r].version].state = "list"
=============================================================================
