------------------------------- MODULE MCLog --------------------------------
(***************************************************************************)
(* The log, and the buffer cache below it, on small instances; the         *)
(* constants are given in the .cfg files.  A behaviour is one of one part, *)
(* chosen in the initial state.  In those of the cache the log stays in    *)
(* its initial state, and in those of the log the cache stays None.        *)
(***************************************************************************)
EXTENDS Log, TLC

CONSTANTS Parts,            \* which of "log" and "cache"
          Spare,            \* a block of the cache beside Blocks
          NBUF, MaxPins

VARIABLES part, blockno, valid, brefcnt, bholder, bdata, lru, bdisk, bpc, bcur, pinned, latest, bpanic

B == INSTANCE Bio WITH Blocks <- Blocks \cup {Spare}, NoBlock <- NoBuf, refcnt <- brefcnt, holder <- bholder,
                       data <- bdata, disk <- bdisk, pc <- bpc, cur <- bcur, panic <- bpanic

ASSUME B!BioAssumption

cache == <<blockno, valid, brefcnt, bholder, bdata, lru, bdisk, bpc, bcur, pinned, latest, bpanic>>

NoCache ==
  /\ blockno = NoBuf /\ valid = NoBuf /\ brefcnt = NoBuf /\ bholder = NoBuf /\ bdata = NoBuf /\ lru = NoBuf
  /\ bdisk = NoBuf /\ bpc = NoBuf /\ bcur = NoBuf /\ pinned = NoBuf /\ latest = NoBuf /\ bpanic = NoBuf

\* All blocks have one content, always the same.
Same(f) == \A b \in DOMAIN f : f[b] = CHOOSE d \in Data : TRUE

MCInit ==
  /\ part \in Parts
  /\ Init
  /\ IF part = "log" THEN NoCache ELSE Same(disk) /\ Same(logblk) /\ B!Init

MCNext ==
  /\ part' = part
  /\ \/ part = "log" /\ Next /\ UNCHANGED cache
     \/ part = "cache" /\ B!Next /\ UNCHANGED vars

MCSpec == MCInit /\ [][MCNext]_<<part, vars, cache>>

\* Processes and blocks are interchangeable.
Symmetry == Permutations(Procs) \cup Permutations(Blocks)

-----------------------------------------------------------------------------
\* bio.c and sleeplock.c: a block has one buffer, reference counts are exact,
\* bget() finds a buffer when there are enough, a buffer has one user at a
\* time, and nobody sleeps for a lock that is free.
CacheIsExact == part = "cache" => B!TypeOK /\ B!CacheIsExact /\ B!LockIsExclusive

\* bread() returns what the last user of the block left in it, also after the
\* buffer was recycled in between.
SeesLatest == part = "cache" => B!SeesLatest
=============================================================================
