-------------------------- MODULE ChannelRegistry --------------------------
(***************************************************************************)
(* channel.Registry and the channels it drives.  StartAll and StopAll copy *)
(* the table under the read lock and then walk over the copy, in the order *)
(* of a Go map, while others register, unregister, start and stop.         *)
(*                                                                         *)
(* A channel is BaseChannel's status and handler as MockChannel keeps      *)
(* them, except that the Start and the Stop of a real channel may fail     *)
(* (a token that is refused, a context that ends).                         *)
(***************************************************************************)
EXTENDS Naturals, FiniteSets

CONSTANTS Chans, NameOf   \* channels and their names, which need not differ

ASSUME RegistryNames == NameOf \in [Chans -> {NameOf[c] : c \in Chans}]

VARIABLES
    rgTable,    \* Registry.channels
    rgUp,       \* channels whose status is running
    rgWalk,     \* per operation: idle, or walking over its copy
    rgTodo,     \* per operation: what is left of the copy
    rgResult,   \* per operation: what the last one returned
    rgCopy,     \* history: the copy the last StopAll took
    rgTouched,  \* history: those of it that others started or stopped since
    rgStuck     \* history: those of it whose Stop failed

rgVars == <<rgTable, rgUp, rgWalk, rgTodo, rgResult, rgCopy, rgTouched, rgStuck>>

AllOps == {"StartAll", "StopAll"}

RegistryInit ==
    /\ rgTable = {} /\ rgUp = {}
    /\ rgWalk = [o \in AllOps |-> FALSE]
    /\ rgTodo = [o \in AllOps |-> {}]
    /\ rgResult = [o \in AllOps |-> "none"]
    /\ rgCopy = {} /\ rgTouched = {} /\ rgStuck = {}

\* Mutant: the name may be taken.
RegisterUnchecked(c) ==
    /\ rgTable' = rgTable \cup {c}
    /\ UNCHANGED <<rgUp, rgWalk, rgTodo, rgResult, rgCopy, rgTouched, rgStuck>>

Register(c) ==
    /\ \A d \in rgTable : NameOf[d] # NameOf[c]
    /\ rgTable' = rgTable \cup {c}
    /\ UNCHANGED <<rgUp, rgWalk, rgTodo, rgResult, rgCopy, rgTouched, rgStuck>>

\* The channel is not stopped.
Unregister(c) ==
    /\ c \in rgTable
    /\ rgTable' = rgTable \ {c}
    /\ UNCHANGED <<rgUp, rgWalk, rgTodo, rgResult, rgCopy, rgTouched, rgStuck>>

\* What one call of Start or Stop does to the status, and whether it fails.
StartOf(c) ==
    {[up |-> rgUp, ok |-> FALSE]}
      \cup IF c \in rgUp THEN {} ELSE {[up |-> rgUp \cup {c}, ok |-> TRUE]}
StopOf(c) ==
    {[up |-> rgUp, ok |-> FALSE]}
      \cup IF c \in rgUp THEN {[up |-> rgUp \ {c}, ok |-> TRUE]} ELSE {}

\* A channel is started or stopped by itself, by whoever has it.
ByHand(c) ==
    /\ \E r \in StartOf(c) \cup StopOf(c) : r.ok /\ rgUp' = r.up
    /\ rgTouched' = rgTouched \cup ({c} \cap rgCopy)
    /\ UNCHANGED <<rgTable, rgWalk, rgTodo, rgResult, rgCopy, rgStuck>>

Copies(o) ==
    /\ ~rgWalk[o]
    /\ rgWalk' = [rgWalk EXCEPT ![o] = TRUE]
    /\ rgTodo' = [rgTodo EXCEPT ![o] = rgTable]
    /\ rgResult' = [rgResult EXCEPT ![o] = "none"]
    /\ IF o = "StopAll"
         THEN rgCopy' = rgTable /\ rgTouched' = {} /\ rgStuck' = {}
         ELSE UNCHANGED <<rgCopy, rgTouched, rgStuck>>
    /\ UNCHANGED <<rgTable, rgUp>>

StartNext(c) ==
    /\ rgWalk["StartAll"] /\ c \in rgTodo["StartAll"]
    /\ rgTodo' = [rgTodo EXCEPT !["StartAll"] = @ \ {c}]
    /\ rgTouched' = rgTouched \cup ({c} \cap rgCopy)
    /\ \E r \in StartOf(c) :
         /\ rgUp' = r.up
         /\ rgWalk' = [rgWalk EXCEPT !["StartAll"] = r.ok]
         /\ rgResult' = [rgResult EXCEPT !["StartAll"] = IF r.ok THEN @ ELSE "error"]
    /\ UNCHANGED <<rgTable, rgCopy, rgStuck>>

\* Mutant: the first error ends the walk.
StopNextOrEnd(c) ==
    /\ rgWalk["StopAll"] /\ c \in rgTodo["StopAll"]
    /\ rgTodo' = [rgTodo EXCEPT !["StopAll"] = @ \ {c}]
    /\ \E r \in StopOf(c) :
         /\ rgUp' = r.up
         /\ rgResult' = [rgResult EXCEPT !["StopAll"] = IF r.ok THEN @ ELSE "error"]
         /\ rgWalk' = [rgWalk EXCEPT !["StopAll"] = r.ok]
         /\ rgStuck' = IF r.ok THEN rgStuck ELSE rgStuck \cup {c}
    /\ UNCHANGED <<rgTable, rgCopy, rgTouched>>

StopNext(c) ==
    /\ rgWalk["StopAll"] /\ c \in rgTodo["StopAll"]
    /\ rgTodo' = [rgTodo EXCEPT !["StopAll"] = @ \ {c}]
    /\ \E r \in StopOf(c) :
         /\ rgUp' = r.up
         /\ rgResult' = [rgResult EXCEPT !["StopAll"] = IF r.ok THEN @ ELSE "error"]
         /\ rgStuck' = IF r.ok THEN rgStuck ELSE rgStuck \cup {c}
    /\ UNCHANGED <<rgTable, rgWalk, rgCopy, rgTouched>>

WalkEnds(o) ==
    /\ rgWalk[o] /\ rgTodo[o] = {}
    /\ rgWalk' = [rgWalk EXCEPT ![o] = FALSE]
    /\ rgResult' = [rgResult EXCEPT ![o] = IF @ = "none" THEN "nil" ELSE @]
    /\ UNCHANGED <<rgTable, rgUp, rgTodo, rgCopy, rgTouched, rgStuck>>

RegistryNext ==
    \/ \E c \in Chans :
         Register(c) \/ Unregister(c) \/ ByHand(c) \/ StartNext(c) \/ StopNext(c)
    \/ \E o \in AllOps : Copies(o) \/ WalkEnds(o)

RegistrySpec == RegistryInit /\ [][RegistryNext]_rgVars

-----------------------------------------------------------------------------
RegistryTypeOK ==
    /\ {rgTable, rgUp, rgCopy, rgTouched, rgStuck} \subseteq SUBSET Chans
    /\ \A c, d \in rgTable : NameOf[c] = NameOf[d] => c = d
    /\ rgWalk \in [AllOps -> BOOLEAN]
    /\ rgTodo \in [AllOps -> SUBSET Chans]
    /\ rgResult \in [AllOps -> {"none", "nil", "error"}]

(***************************************************************************)
(* StopAll stops what it can: when it has returned, with an error or not,  *)
(* a channel of its copy is stopped unless its own Stop failed or somebody *)
(* else touched it meanwhile; and it says nil only if no Stop failed.      *)
(***************************************************************************)
StopAllStopsTheRest ==
    rgResult["StopAll"] # "none" /\ ~rgWalk["StopAll"] =>
      /\ rgCopy \cap rgUp \subseteq rgStuck \cup rgTouched
      /\ rgResult["StopAll"] = "nil" => rgStuck = {}
=============================================================================
