------------------------- MODULE ConfigReader_proofs -------------------------
(***************************************************************************)
(* Snapshot returns what the file held during the call, for any number of  *)
(* callers, contents and rewrites.  The reason is that what is kept is     *)
(* never older than the version it is kept for: the file is looked at      *)
(* before it is read.                                                      *)
(***************************************************************************)
EXTENDS ConfigReader, TLAPS

\* What is kept was read when the file had the version noted, or a later one.
KeptIsCurrent ==
    cache.loaded =>
        /\ cache.stamp \in 1 .. Version
        /\ cache.version \in cache.stamp .. Version
        /\ contents[cache.version].state = "list"

LookedIsThere ==
    \A r \in Requests : snap[r].pc \in {"looked", "returned"} => snap[r].stamp \in 1 .. Version

ReaderInv ==
    /\ ReaderTypeOK
    /\ Version > 0
    /\ KeptIsCurrent
    /\ LookedIsThere
    /\ SnapshotIsCurrent

-----------------------------------------------------------------------------
\* The first version of the file is there and nothing has been read.
LEMMA ReaderStarts == ReaderInit => ReaderInv
<1> SUFFICES ASSUME ReaderInit PROVE ReaderInv
    OBVIOUS
<1>1. PICK f \in Written : contents = <<f>>
    BY DEF ReaderInit
<1>2. f \in Files
    BY <1>1, WrittenAreFiles
<1>3. contents \in Seq(Files) /\ Len(contents) = 1
    BY <1>1, <1>2
<1> QED
    BY <1>3 DEF ReaderInit, ReaderInv, ReaderTypeOK, KeptIsCurrent, LookedIsThere, SnapshotIsCurrent, NoCall, At, Version

\* A rewrite leaves the earlier versions as they were.
LEMMA RewriteKeeps == ReaderInv /\ Rewrite => ReaderInv'
<1> SUFFICES ASSUME ReaderInv, Rewrite PROVE ReaderInv'
    OBVIOUS
<1> USE DEF ReaderInv, ReaderTypeOK, Version
<1>1. PICK f \in Written : contents' = Append(contents, f)
    BY DEF Rewrite
<1>2. f \in Files
    BY <1>1, WrittenAreFiles
<1>3. /\ contents' \in Seq(Files) /\ Len(contents') = Len(contents) + 1
      /\ \A v \in 1 .. Len(contents) : contents'[v] = contents[v]
    BY <1>1, <1>2
<1>4. cache' = cache /\ snap' = snap
    BY DEF Rewrite
<1>5. KeptIsCurrent'
    BY <1>3, <1>4 DEF KeptIsCurrent
<1>6. LookedIsThere'
    BY <1>3, <1>4 DEF LookedIsThere
<1>7. SnapshotIsCurrent'
    BY <1>3, <1>4 DEF SnapshotIsCurrent, LookedIsThere
<1> QED
    BY <1>3, <1>4, <1>5, <1>6, <1>7

\* A call whose record stays sound, while the file stays as it is and what is
\* kept stays sound, keeps the invariant: the other calls are as they were.
LEMMA OneCall ==
    ASSUME NEW r \in Requests, ReaderInv, contents' = contents,
           cache' \in [loaded : BOOLEAN, stamp : Nat, version : Nat], KeptIsCurrent',
           NEW c \in [pc : {"out", "looked", "returned", "failed"}, stamp : Nat, version : Nat],
           snap' = [snap EXCEPT ![r] = c],
           c.pc \in {"looked", "returned"} => c.stamp \in 1 .. Version,
           c.pc = "returned" => /\ c.version \in c.stamp .. Version
                                /\ contents[c.version].state = "list"
    PROVE  ReaderInv'
<1>1. ReaderTypeOK'
    BY DEF ReaderInv, ReaderTypeOK
<1>2. \A q \in Requests : snap'[q] = IF q = r THEN c ELSE snap[q]
    BY DEF ReaderInv, ReaderTypeOK
<1>3. LookedIsThere'
    BY <1>2 DEF ReaderInv, LookedIsThere, Version
<1>4. SnapshotIsCurrent'
    BY <1>2 DEF ReaderInv, SnapshotIsCurrent, Version
<1> QED
    BY <1>1, <1>3, <1>4 DEF ReaderInv, Version

\* A call of Snapshot, and its end.
LEMMA CallsKeep ==
    ASSUME NEW r \in Requests, ReaderInv, Snapshot(r) \/ Use(r)
    PROVE  ReaderInv'
<1>1. /\ snap[r] \in [pc : {"out", "looked", "returned", "failed"}, stamp : Nat, version : Nat]
      /\ snap[r].pc = "looked" => snap[r].stamp \in 1 .. Version
      /\ Version \in Nat \ {0}
      /\ cache \in [loaded : BOOLEAN, stamp : Nat, version : Nat]
      /\ KeptIsCurrent
    BY DEF ReaderInv, ReaderTypeOK, LookedIsThere, Version
<1>2. UNCHANGED <<contents, cache>> => KeptIsCurrent'
    BY <1>1 DEF KeptIsCurrent, Version
<1>3. CASE Stat(r)
  <2>1. PICK c \in {At("failed", 0, 0), At("looked", Version, 0)} : snap' = [snap EXCEPT ![r] = c]
      BY <1>3 DEF Stat
  <2>2. /\ c \in [pc : {"out", "looked", "returned", "failed"}, stamp : Nat, version : Nat]
        /\ c.pc \in {"looked", "failed"}
        /\ c.pc = "looked" => c.stamp \in 1 .. Version
      BY <1>1, <2>1 DEF At
  <2> QED
      BY <1>1, <1>2, <1>3, <2>1, <2>2, OneCall DEF Stat
<1>4. CASE Kept(r)
  <2> DEFINE c == [snap[r] EXCEPT !.pc = "returned", !.version = cache.version]
  <2>1. snap' = [snap EXCEPT ![r] = c]
      BY <1>4 DEF Kept
  <2>2. /\ c \in [pc : {"out", "looked", "returned", "failed"}, stamp : Nat, version : Nat]
        /\ c.stamp = cache.stamp /\ c.version = cache.version
      BY <1>1, <1>4 DEF Kept, Current
  <2>3. /\ c.stamp \in 1 .. Version /\ c.version \in c.stamp .. Version
        /\ contents[c.version].state = "list"
      BY <1>1, <1>4, <2>2 DEF Kept, Current, KeptIsCurrent
  <2> HIDE DEF c
  <2> QED
      BY <1>1, <1>2, <1>4, <2>1, <2>2, <2>3, OneCall DEF Kept
<1>5. CASE Read(r)
  <2> DEFINE c == [snap[r] EXCEPT !.pc = "returned", !.version = Version]
  <2>1. snap' = [snap EXCEPT ![r] = c]
      BY <1>5 DEF Read
  <2>2. /\ c \in [pc : {"out", "looked", "returned", "failed"}, stamp : Nat, version : Nat]
        /\ c.stamp = snap[r].stamp /\ c.version = Version
      BY <1>1
  <2>3. /\ contents[Version].state = "list" /\ snap[r].stamp \in 1 .. Version
        /\ Version \in snap[r].stamp .. Version
      BY <1>1, <1>5 DEF Read, File
  <2>4. KeptIsCurrent' /\ cache' \in [loaded : BOOLEAN, stamp : Nat, version : Nat]
      BY <1>1, <1>5, <2>3 DEF Read, KeptIsCurrent, Version
  <2> HIDE DEF c
  <2> QED
      BY <1>1, <1>5, <2>1, <2>2, <2>3, <2>4, OneCall DEF Read
<1>6. CASE ReadFails(r)
  <2> DEFINE c == [snap[r] EXCEPT !.pc = "failed"]
  <2>1. snap' = [snap EXCEPT ![r] = c]
      BY <1>6 DEF ReadFails
  <2>2. /\ c \in [pc : {"out", "looked", "returned", "failed"}, stamp : Nat, version : Nat]
        /\ c.pc = "failed"
      BY <1>1
  <2> HIDE DEF c
  <2> QED
      BY <1>1, <1>2, <1>6, <2>1, <2>2, OneCall DEF ReadFails
<1>7. CASE Use(r)
    BY <1>1, <1>2, <1>7, OneCall DEF Use, NoCall, At
<1> QED
    BY <1>3, <1>4, <1>5, <1>6, <1>7 DEF Snapshot

\* What is kept is never older than what it is kept for.
THEOREM ReaderInductive == ReaderSpec => []ReaderInv
<1>1. ReaderInv /\ [ReaderNext]_readerVars => ReaderInv'
  <2> SUFFICES ASSUME ReaderInv, [ReaderNext]_readerVars PROVE ReaderInv'
      OBVIOUS
  <2>1. CASE UNCHANGED readerVars
      BY <2>1 DEF readerVars, ReaderInv, ReaderTypeOK, Version, KeptIsCurrent, LookedIsThere, SnapshotIsCurrent
  <2> QED
      BY <2>1, RewriteKeeps, CallsKeep DEF ReaderNext
<1> QED
    BY <1>1, ReaderStarts, PTL DEF ReaderSpec

\* Snapshot returns what the file held at some moment of the call.
THEOREM SnapshotsAreCurrent == ReaderSpec => []SnapshotIsCurrent
<1>1. ReaderInv => SnapshotIsCurrent
    BY DEF ReaderInv
<1> QED
    BY <1>1, ReaderInductive, PTL
=============================================================================
