------------------------------ MODULE Sessions ------------------------------
(***************************************************************************)
(* The session manager: sessions that collect the frames of a message.     *)
(* Every operation runs under the lock, except the two that clean up: they *)
(* collect ids under the read lock and remove them one by one later.       *)
(*                                                                         *)
(* The server makes one manager per connection, closes it and calls        *)
(* cleanupClient; the rest is the package's to use.                        *)
(***************************************************************************)
EXTENDS Integers, Sequences, FiniteSets, Functions

CONSTANTS
    Ids,          \* session ids; create draws an unused one
    SClients,     \* client ids
    MaxSessions,  \* defaultMaxSessions
    MaxIndex      \* bound: the highest frame index a caller gives

ASSUME SessionBounds == MaxSessions \in Nat \ {0} /\ MaxIndex \in Nat

VARIABLES
    smSessions,  \* SessionManager.sessions
    smLoop,      \* the cleanupLoop: runs, is told to end by done, has ended
    smDue,       \* per cleaner: the ids it has collected
    smLast,      \* what assembleAndRemove returned last
    smGiven,     \* history, per id: frames added since the session was made
    smAgain,     \* history: ids made again since the loop collected them
    smLost       \* history: sessions the loop removed before their time since then

smVars == <<smSessions, smLoop, smDue, smLast, smGiven, smAgain, smLost>>

\* The cleanupLoop, and readPump or Shutdown in cleanupClient.
Cleaners == {"loop", "client"}
Listed  == DOMAIN smSessions
Indexes == -1 .. MaxIndex
Totals  == 0 .. MaxIndex + 1
NewSession(c) == [client |-> c, frames |-> {}, total |-> 0, old |-> FALSE]

SessionInit ==
    /\ smSessions = <<>> /\ smLoop = "runs"
    /\ smDue = [k \in Cleaners |-> {}]
    /\ smLast = [complete |-> FALSE, parts |-> <<>>, given |-> {}]
    /\ smGiven = [i \in Ids |-> {}]
    /\ smAgain = {} /\ smLost = {}

\* Mutant: the limit is not looked at.
CreateUnlimited(i, c) ==
    /\ i \notin Listed
    /\ smSessions' = [j \in Listed \cup {i} |->
                        IF j = i THEN NewSession(c) ELSE smSessions[j]]
    /\ smGiven' = [smGiven EXCEPT ![i] = {}]
    /\ smAgain' = IF i \in smDue["loop"] THEN smAgain \cup {i} ELSE smAgain
    /\ UNCHANGED <<smLoop, smDue, smLast, smLost>>

\* create and createWithID: the id is unused, and there is room.
Create(i, c) ==
    /\ i \notin Listed /\ Cardinality(Listed) < MaxSessions
    /\ smSessions' = [j \in Listed \cup {i} |->
                        IF j = i THEN NewSession(c) ELSE smSessions[j]]
    /\ smGiven' = [smGiven EXCEPT ![i] = {}]
    /\ smAgain' = IF i \in smDue["loop"] THEN smAgain \cup {i} ELSE smAgain
    /\ UNCHANGED <<smLoop, smDue, smLast, smLost>>

\* The total is the last one given; an index may lie outside it.
AddFrame(i, n, total) ==
    /\ i \in Listed
    /\ smSessions' = [smSessions EXCEPT ![i].frames = @ \cup {n}, ![i].total = total]
    /\ smGiven' = [smGiven EXCEPT ![i] = @ \cup {n}]
    /\ UNCHANGED <<smLoop, smDue, smLast, smAgain, smLost>>

\* Mutant: frames are counted, their indexes are not looked at.
CompleteByCount(s) ==
    /\ s.total > 0 /\ Cardinality(s.frames) = s.total

\* As many frames as announced, and then each index from 0 on is there.
Complete(s) ==
    /\ s.total > 0 /\ Cardinality(s.frames) = s.total
    /\ \A n \in 0 .. s.total - 1 : n \in s.frames

\* The loop appends the frames from index 0 up to the total; of a frame that
\* was given twice the later one.
Assembled(s) == [n \in 1 .. s.total |-> n - 1]

\* The session is gone whether it was complete or not.
AssembleAndRemove(i) ==
    /\ i \in Listed
    /\ LET s == smSessions[i] IN
         smLast' = IF Complete(s)
                     THEN [complete |-> TRUE, parts |-> Assembled(s), given |-> smGiven[i]]
                     ELSE [complete |-> FALSE, parts |-> <<>>, given |-> {}]
    /\ smSessions' = Restrict(smSessions, Listed \ {i})
    /\ UNCHANGED <<smLoop, smDue, smGiven, smAgain, smLost>>

\* A session passes its timeout.
Expires(i) ==
    /\ i \in Listed /\ ~smSessions[i].old
    /\ smSessions' = [smSessions EXCEPT ![i].old = TRUE]
    /\ UNCHANGED <<smLoop, smDue, smLast, smGiven, smAgain, smLost>>

\* once.Do(close(done)).
Close ==
    /\ smLoop = "runs" /\ smLoop' = "closed"
    /\ UNCHANGED <<smSessions, smDue, smLast, smGiven, smAgain, smLost>>

\* The cleanupLoop's tick takes the old ones; once done is closed the select
\* may still choose a tick that is due.
Collect(k, due) ==
    /\ smDue[k] = {} /\ due # {}
    /\ smDue' = [smDue EXCEPT ![k] = due]
    /\ IF k = "loop" THEN smAgain' = {} /\ smLost' = {} ELSE UNCHANGED <<smAgain, smLost>>
    /\ UNCHANGED <<smSessions, smLoop, smLast, smGiven>>

CleanupTicks ==
    /\ smLoop # "ended"
    /\ Collect("loop", {i \in Listed : smSessions[i].old})

LoopReturns ==
    /\ smLoop = "closed" /\ smDue["loop"] = {}
    /\ smLoop' = "ended"
    /\ UNCHANGED <<smSessions, smDue, smLast, smGiven, smAgain, smLost>>

CleanupClient(c) == Collect("client", {i \in Listed : smSessions[i].client = c})

\* remove deletes whatever has the id now.
CleanupRemoves(k) ==
    \E i \in smDue[k] :
      /\ smDue' = [smDue EXCEPT ![k] = @ \ {i}]
      /\ smLost' = IF k = "loop" /\ i \in Listed /\ ~smSessions[i].old
                     THEN smLost \cup {i} ELSE smLost
      /\ smSessions' = Restrict(smSessions, Listed \ {i})
      /\ UNCHANGED <<smLoop, smLast, smGiven, smAgain>>

SessionNext ==
    \/ \E i \in Ids :
         \/ \E c \in SClients : Create(i, c)
         \/ \E n \in Indexes, t \in Totals : AddFrame(i, n, t)
         \/ AssembleAndRemove(i) \/ Expires(i)
    \/ Close \/ CleanupTicks \/ LoopReturns
    \/ \E c \in SClients : CleanupClient(c)
    \/ \E k \in Cleaners : CleanupRemoves(k)

SessionSpec == SessionInit /\ [][SessionNext]_smVars

-----------------------------------------------------------------------------
SessionTypeOK ==
    /\ Listed \subseteq Ids /\ Cardinality(Listed) <= MaxSessions
    /\ \A i \in Listed :
         smSessions[i] \in [client : SClients, frames : SUBSET Indexes,
                            total : Totals, old : BOOLEAN]
    /\ smLoop \in {"runs", "closed", "ended"}
    /\ smDue \in [Cleaners -> SUBSET Ids]
    /\ smLast.complete \in BOOLEAN
    /\ smGiven \in [Ids -> SUBSET Indexes]
    /\ smAgain \subseteq Ids /\ smLost \subseteq Ids

\* A message that assembleAndRemove calls complete has every part once, in
\* order, and no part was given that it leaves out.
AssembledComplete ==
    smLast.complete =>
      /\ smLast.parts # <<>> /\ IsInjective(smLast.parts)
      /\ Range(smLast.parts) = smLast.given
      /\ \A m, n \in DOMAIN smLast.parts : m < n => smLast.parts[m] < smLast.parts[n]

\* The cleanup loop takes a session before its timeout only if the id was
\* used again after the loop had collected it.
OnlyOldAreCleaned == smLost \subseteq smAgain

(***************************************************************************)
(* What becomes of a session: its message is whole, or it was let go for a *)
(* reason, whatever frames come in whatever order with whatever totals and *)
(* whatever cleaners run meanwhile.                                        *)
(***************************************************************************)
SessionsSound == AssembledComplete /\ OnlyOldAreCleaned
=============================================================================
