----------------------- MODULE ServerLifecycleProofs -----------------------
(***************************************************************************)
(* Proofs about ServerLifecycle, for any number of Starts and Shutdowns.   *)
(* As long as no Start begins before the last one and its listener are     *)
(* through, and no Shutdown overtakes a Start, there is one Start to speak *)
(* of, the last: the fields server and startErr are its own, and only its  *)
(* server can listen.                                                      *)
(***************************************************************************)
EXTENDS ServerLifecycle, TLAPS

\* Nothing is known of Starts to come.
Unstarted ==
    /\ slServer <= slStarts /\ slErr <= slStarts
    /\ \A i \in SStarts :
         /\ i > slStarts => /\ slStart[i] = "none" /\ slHub[i] = "none"
                            /\ slHttp[i] = "none" /\ slListener[i].at = "none"
                            /\ ~slErrFull[i] /\ ~slErrClosed[i]
         /\ i <= slStarts => slStart[i] # "none"

\* The Starts before the last are through, and so are their listeners.
OthersAreThrough ==
    /\ \A i \in SStarts :
         i # slStarts => slListener[i].at \in {"none", "done"} /\ ~Under(i)
    /\ \A i \in SStarts :
         slHttp[i] = "listening" => i = slStarts /\ slListener[i].at = "serves"

\* How far the last Start has got, and what it has made by then.
LastStart ==
    \A n \in SStarts : n = slStarts =>
      /\ slStart[n] \in {"hub", "server"} =>
           /\ slStop = "idle" /\ slRunning
           /\ slHttp[n] = "none" /\ slListener[n].at = "none"
      /\ slStart[n] \notin {"hub", "server"} => slServer = n
      /\ slStart[n] \in {"hub", "server", "listen"} => slListener[n].at = "none"
      /\ slStart[n] \notin {"hub", "server", "listen"} => slErr = n
      /\ slErrClosed[n] => slListener[n].at = "done"
      /\ slErrFull[n] \/ slStart[n] = "failed" => slListener[n].at \in {"closing", "done"}
      /\ slListener[n].at = "serves" => slListener[n].serves = n
      /\ ~slRunning /\ slStop = "idle" => slHttp[n] = "closed" \/ slListener[n].at \in {"closing", "done"}

NotBeforeFirst == slStarts = 0 => ~slRunning /\ slStop = "idle"

Undisturbed == ~slEarly => OthersAreThrough /\ LastStart

\* Before the first Shutdown: the hub of a running server waits, and what is
\* under way to it came from a server that listens.
NeverShut ==
    ~slShut =>
      /\ slRegister /\ slStop = "idle"
      /\ \A i \in SStarts : slHttp[i] # "closed"
      /\ ~slEarly /\ slConn = "registers" => \E i \in SStarts : slHttp[i] = "listening"
      /\ ~slEarly => \A n \in SStarts : n = slStarts =>
           /\ ~slRunning => slStart[n] = "failed"
           /\ slRunning /\ slStart[n] # "hub" => slHub[n] = "waits"

ServerInv == ServerTypeOK /\ Unstarted /\ NotBeforeFirst /\ Undisturbed /\ NeverShut

LEMMA BoundIsNat == MaxServerStarts \in Nat /\ MaxServerStarts > 0
BY ServerBounds

ListenerStates == {"none", "spawned", "serves", "sends", "closing", "done"}

LEMMA FieldTypes ==
  ASSUME ServerTypeOK
  PROVE  /\ slServer \in 0 .. MaxServerStarts /\ slErr \in 0 .. MaxServerStarts
         /\ slStarts \in 0 .. MaxServerStarts
         /\ slErrFull \in [SStarts -> BOOLEAN] /\ slErrClosed \in [SStarts -> BOOLEAN]
         /\ slListener \in [SStarts -> [at : ListenerStates,
                                        serves : 0 .. MaxServerStarts]]
         /\ slHub \in [SStarts -> {"none", "waits", "done"}]
         /\ slStart \in [SStarts -> {"none", "hub", "server", "listen", "probe",
                                     "ok", "timeout", "failed"}]
BY Zenon DEF ServerTypeOK, ListenerStates

LEMMA FieldNumbers ==
  ASSUME ServerTypeOK
  PROVE  /\ slStarts \in Nat /\ slServer \in Nat /\ slErr \in Nat
         /\ slStarts <= MaxServerStarts
BY FieldTypes, BoundIsNat

USE BoundIsNat DEF SStarts, Under, Alive, Listening, ListenerStates, slErrChans

LEMMA ServerInitInv == ServerInit => ServerInv
<1> SUFFICES ASSUME ServerInit PROVE ServerInv  OBVIOUS
<1>1. /\ slRunning \in BOOLEAN /\ slRegister \in BOOLEAN /\ slShut \in BOOLEAN
      /\ slEarly \in BOOLEAN /\ slTaken \in BOOLEAN
  BY Zenon DEF ServerInit
<1>c. slErrFull \in [SStarts -> BOOLEAN] /\ slErrClosed \in [SStarts -> BOOLEAN]
  BY Zenon DEF ServerInit
<1>2. ServerTypeOK  BY <1>c, <1>1 DEF ServerInit, ServerTypeOK
<1>3. Unstarted /\ NotBeforeFirst  BY DEF ServerInit, Unstarted, NotBeforeFirst
<1>4. Undisturbed  BY DEF ServerInit, Undisturbed, OthersAreThrough, LastStart
<1>5. NeverShut  BY DEF ServerInit, NeverShut
<1> QED  BY <1>2, <1>3, <1>4, <1>5 DEF ServerInv

LEMMA StartEntersInv == ServerInv /\ StartEnters /\ UNCHANGED slTaken => ServerInv'
<1> SUFFICES ASSUME ServerInv, StartEnters, UNCHANGED slTaken PROVE ServerInv'  OBVIOUS
<1> DEFINE n == slStarts + 1
<1> USE DEF ServerInv
<1>1. n \in SStarts /\ slStarts \in Nat /\ slServer \in Nat /\ slErr \in Nat
  <2>1. slStarts < MaxServerStarts  BY Zenon DEF StartEnters
  <2> QED  BY <2>1, FieldNumbers
<1>2. /\ ~slRunning /\ slRunning' = TRUE /\ slStarts' = n
      /\ slStart' = [slStart EXCEPT ![n] = "hub"]
      /\ UNCHANGED <<slRegister, slServer, slErr, slHub, slHttp, slListener,
                     slErrChans, slStop, slConn, slShut, slPanic, slTaken>>
  BY DEF StartEnters
<1>3. /\ slEarly' \in BOOLEAN
      /\ ~slEarly' => /\ ~slEarly /\ slStop = "idle"
                      /\ \A i \in SStarts :
                           ~Under(i) /\ ~Alive(i)
      /\ slEarly' => \/ slEarly \/ slStop # "idle"
                     \/ \E i \in SStarts :
                          Under(i) \/ Alive(i)
  <2>1. slEarly' = (slEarly \/ slStop # "idle"
              \/ \E i \in SStarts : Under(i) \/ Alive(i))
    BY Zenon DEF StartEnters
  <2> HIDE DEF Under, Alive, SStarts
  <2>2. slEarly' \in BOOLEAN  BY <2>1, Zenon
  <2> QED  BY <2>1, <2>2
<1>4. ServerTypeOK'
  <2>1. slRunning' \in BOOLEAN  BY <1>2, Zenon
  <2>2. slStarts' \in 0 .. MaxServerStarts  BY <1>1, <1>2
  <2>3. slStart' \in [SStarts -> {"none", "hub", "server", "listen", "probe",
                                  "ok", "timeout", "failed"}]
    BY <1>2 DEF ServerTypeOK
  <2> QED  BY <1>2, <1>3, <2>1, <2>2, <2>3 DEF ServerTypeOK
<1>p. /\ slStart'[n] = "hub" /\ slStart[n] = "none" /\ slHttp[n] = "none"
      /\ slListener[n].at = "none" /\ ~slErrFull[n] /\ ~slErrClosed[n]
      /\ \A j \in SStarts : j # n => slStart'[j] = slStart[j]
  BY <1>1, <1>2, FieldTypes DEF Unstarted
<1>5. Unstarted' /\ NotBeforeFirst'
  BY <1>1, <1>2, <1>p DEF Unstarted, NotBeforeFirst
<1>6. Undisturbed'
  <2> SUFFICES ASSUME ~slEarly' PROVE OthersAreThrough' /\ LastStart'
    BY DEF Undisturbed
  <2>1. OthersAreThrough /\ LastStart  BY <1>3 DEF Undisturbed
  <2>2. \A i \in SStarts : slListener[i].at \in {"none", "done"}
    BY <1>3 DEF ServerTypeOK
  <2>3. OthersAreThrough'
    BY <1>1, <1>2, <1>3, <2>1, <2>2 DEF OthersAreThrough, ServerTypeOK
  <2>4. LastStart'
    BY <1>1, <1>2, <1>3, <1>p, <2>2 DEF LastStart
  <2> QED  BY <2>3, <2>4
<1>7. NeverShut'
  <2> SUFFICES ASSUME ~slShut' PROVE NeverShut'  BY DEF NeverShut
  <2>1. ~slShut  BY <1>2
  <2> QED  BY <1>1, <1>2, <1>3, <2>1 DEF NeverShut, ServerTypeOK
<1> QED  BY <1>4, <1>5, <1>6, <1>7

(* The steps of a Start change its own entries.                            *)
LEMMA StartStepInv ==
  ASSUME ServerInv, NEW i \in SStarts, UNCHANGED slTaken,
         \/ StartSpawnsHub(i) \/ StartMakesServer(i) \/ StartSpawnsListener(i)
         \/ ProbeReaches(i) \/ ProbeTimesOut(i) \/ StartRefused(i)
  PROVE  ServerInv'
<1> USE DEF ServerInv
<1>0. i <= slStarts /\ slStarts \in Nat
  <2>1. slStart[i] # "none"
    BY DEF StartSpawnsHub, StartMakesServer, StartSpawnsListener, ProbeReaches,
           ProbeTimesOut, StartRefused
  <2>2. slStarts \in Nat  BY FieldNumbers
  <2> QED  BY <2>1, <2>2 DEF Unstarted
<1>1. CASE StartSpawnsHub(i)
  <2>p. /\ slStart[i] = "hub" /\ slStart'[i] = "server" /\ slHub'[i] = "waits"
        /\ \A j \in SStarts : j # i => slStart'[j] = slStart[j] /\ slHub'[j] = slHub[j]
        /\ UNCHANGED <<slRunning, slRegister, slServer, slErr, slStarts, slHttp,
                       slListener, slErrChans, slStop, slConn, slShut, slEarly>>
    BY <1>1 DEF StartSpawnsHub, ServerTypeOK
  <2>1. ServerTypeOK'  BY <1>1 DEF StartSpawnsHub, ServerTypeOK
  <2>2. Unstarted' /\ NotBeforeFirst'  BY <1>0, <2>p DEF Unstarted, NotBeforeFirst
  <2>3. Undisturbed'  BY <1>0, <2>p DEF Undisturbed, OthersAreThrough, LastStart
  <2>4. NeverShut'  BY <1>0, <2>p DEF NeverShut
  <2> QED  BY <2>1, <2>2, <2>3, <2>4
<1>2. CASE StartMakesServer(i)
  <2>p. /\ slStart[i] = "server" /\ slStart'[i] = "listen" /\ slHttp'[i] = "made"
        /\ slServer' = i
        /\ \A j \in SStarts : j # i => slStart'[j] = slStart[j] /\ slHttp'[j] = slHttp[j]
        /\ UNCHANGED <<slRunning, slRegister, slErr, slStarts, slHub,
                       slListener, slErrChans, slStop, slConn, slShut, slEarly>>
    BY <1>2 DEF StartMakesServer, ServerTypeOK
  <2>1. ServerTypeOK'
    <3>1. slServer' \in 0 .. MaxServerStarts  BY <2>p
    <3>2. slHttp' \in [SStarts -> {"none", "made", "listening", "closed"}]
      BY <1>2 DEF StartMakesServer, ServerTypeOK
    <3> QED  BY <1>2, <3>1, <3>2 DEF StartMakesServer, ServerTypeOK
  <2>2. Unstarted' /\ NotBeforeFirst'  BY <1>0, <2>p DEF Unstarted, NotBeforeFirst
  <2>3. Undisturbed'  BY <1>0, <2>p DEF Undisturbed, OthersAreThrough, LastStart
  <2>4. NeverShut'
    <3>1. ~slEarly => slHttp[i] # "listening"
      BY <2>p DEF Undisturbed, OthersAreThrough, LastStart
    <3> QED  BY <1>0, <2>p, <3>1 DEF NeverShut
  <2> QED  BY <2>1, <2>2, <2>3, <2>4
<1>3. CASE StartSpawnsListener(i)
  <2>p. /\ slStart[i] = "listen" /\ slStart'[i] = "probe" /\ slErr' = i
        /\ slListener'[i].at = "spawned"
        /\ \A j \in SStarts : j # i => slStart'[j] = slStart[j] /\ slListener'[j] = slListener[j]
        /\ UNCHANGED <<slRunning, slRegister, slServer, slStarts, slHub, slHttp,
                       slErrChans, slStop, slConn, slShut, slEarly>>
    BY <1>3 DEF StartSpawnsListener, ServerTypeOK
  <2>1. ServerTypeOK'
    <3>1. slErr' \in 0 .. MaxServerStarts  BY <2>p
    <3>2. [at |-> "spawned", serves |-> 0]
            \in [at : ListenerStates, serves : 0 .. MaxServerStarts]
      OBVIOUS
    <3>3. slListener' \in [SStarts -> [at : ListenerStates,
                                       serves : 0 .. MaxServerStarts]]
      BY <1>3, <3>2 DEF StartSpawnsListener, ServerTypeOK
    <3> QED  BY <1>3, <3>1, <3>3 DEF StartSpawnsListener, ServerTypeOK
  <2>2. Unstarted' /\ NotBeforeFirst'  BY <1>0, <2>p DEF Unstarted, NotBeforeFirst
  <2>3. Undisturbed'  BY <1>0, <2>p DEF Undisturbed, OthersAreThrough, LastStart
  <2>4. NeverShut'  BY <1>0, <2>p DEF NeverShut
  <2> QED  BY <2>1, <2>2, <2>3, <2>4
<1>4. CASE ProbeReaches(i) \/ ProbeTimesOut(i)
  <2>p. /\ slStart[i] = "probe" /\ slStart'[i] \in {"ok", "timeout"}
        /\ \A j \in SStarts : j # i => slStart'[j] = slStart[j]
        /\ UNCHANGED <<slRunning, slRegister, slServer, slErr, slStarts, slHub, slHttp,
                       slListener, slErrChans, slStop, slConn, slShut, slEarly>>
    BY <1>4 DEF ProbeReaches, ProbeTimesOut, ServerTypeOK
  <2>1. ServerTypeOK'
    <3>1. slStart' \in [SStarts -> {"none", "hub", "server", "listen", "probe",
                                    "ok", "timeout", "failed"}]
      BY <1>4, FieldTypes DEF ProbeReaches, ProbeTimesOut
    <3> QED  BY <1>4, <2>p, <3>1 DEF ProbeReaches, ProbeTimesOut, ServerTypeOK
  <2>2. Unstarted' /\ NotBeforeFirst'  BY <1>0, <2>p DEF Unstarted, NotBeforeFirst
  <2>3. Undisturbed'  BY <1>0, <2>p DEF Undisturbed, OthersAreThrough, LastStart
  <2>4. NeverShut'  BY <1>0, <2>p DEF NeverShut
  <2> QED  BY <2>1, <2>2, <2>3, <2>4
<1>5. CASE StartRefused(i)
  <2>p. /\ slStart[i] = "probe" /\ slStart'[i] = "failed" /\ ~slRunning'
        /\ slErrFull[slErr] \/ slErrClosed[slErr]
        /\ \A j \in SStarts : slErrFull'[j] => slErrFull[j]
        /\ \A j \in SStarts : j # i => slStart'[j] = slStart[j]
        /\ UNCHANGED <<slRegister, slServer, slErr, slStarts, slHub, slHttp,
                       slListener, slErrClosed, slStop, slConn, slShut, slEarly>>
    BY <1>5 DEF StartRefused, ServerTypeOK
  <2>1. ServerTypeOK'
    <3>1. slRunning' \in BOOLEAN  BY <1>5, Zenon DEF StartRefused
    <3>2. slErrFull' \in [SStarts -> BOOLEAN]  BY <1>5, Zenon DEF StartRefused, ServerTypeOK
    <3> QED  BY <1>5, <3>1, <3>2 DEF StartRefused, ServerTypeOK
  <2>2. Unstarted' /\ NotBeforeFirst'  BY <1>0, <2>p DEF Unstarted, NotBeforeFirst
  <2>3. Undisturbed'  BY <1>0, <2>p DEF Undisturbed, OthersAreThrough, LastStart
  <2>4. NeverShut'  BY <1>0, <2>p DEF NeverShut, Undisturbed, OthersAreThrough
  <2> QED  BY <2>1, <2>2, <2>3, <2>4
<1> QED  BY <1>1, <1>2, <1>3, <1>4, <1>5

(* The listener goroutine, as long as it is the last Start's, uses and     *)
(* closes that Start's startErr.                                           *)
LEMMA ListenerInv ==
  ASSUME ServerInv, NEW i \in SStarts, UNCHANGED slTaken,
         \/ ListenerListens(i) \/ ListenerRefused(i) \/ ListenerSends(i)
         \/ ListenerShut(i) \/ ListenerCloses(i)
  PROVE  ServerInv'
<1> USE DEF ServerInv
<1>0. i <= slStarts /\ slStarts \in Nat /\ slServer \in Nat /\ slErr \in Nat
  <2>1. slListener[i].at # "none"
    BY DEF ListenerListens, ListenerRefused, ListenerSends, ListenerShut, ListenerCloses
  <2>2. slStarts \in Nat /\ slServer \in Nat /\ slErr \in Nat  BY FieldNumbers
  <2> QED  BY <2>1, <2>2 DEF Unstarted
<1>t. ASSUME NEW at \in ListenerStates, slListener' = [slListener EXCEPT ![i].at = at]
      PROVE  /\ slListener' \in [SStarts -> [at : ListenerStates, serves : 0 .. MaxServerStarts]]
             /\ slListener'[i].at = at /\ slListener'[i].serves = slListener[i].serves
             /\ \A j \in SStarts : j # i => slListener'[j] = slListener[j]
  BY <1>t, FieldTypes
<1>1. CASE ListenerListens(i)
  <2>p. /\ slListener[i].at = "spawned" /\ slListener'[i].at = "serves"
        /\ slListener'[i].serves = slServer
        /\ slHttp[slServer] = "made"
        /\ slServer \in SStarts => slHttp'[slServer] = "listening"
        /\ \A j \in SStarts : /\ j # i => slListener'[j] = slListener[j]
                              /\ j # slServer => slHttp'[j] = slHttp[j]
                              /\ slHttp[j] # "listening"
        /\ UNCHANGED <<slRunning, slRegister, slServer, slErr, slStarts, slStart, slHub,
                       slErrChans, slStop, slConn, slShut, slEarly>>
    BY <1>1 DEF ListenerListens, ServerTypeOK
  <2>1. ServerTypeOK'
    <3>1. slHttp' \in [SStarts -> {"none", "made", "listening", "closed"}]
      BY <1>1 DEF ListenerListens, ServerTypeOK
    <3>2. [at |-> "serves", serves |-> slServer]
            \in [at : ListenerStates, serves : 0 .. MaxServerStarts]
      BY DEF ServerTypeOK
    <3>3. slListener' \in [SStarts -> [at : ListenerStates,
                                       serves : 0 .. MaxServerStarts]]
      BY <1>1, <3>2 DEF ListenerListens, ServerTypeOK
    <3> QED  BY <1>1, <3>1, <3>3 DEF ListenerListens, ServerTypeOK
  <2>2. Unstarted' /\ NotBeforeFirst'
    BY <1>0, <2>p DEF Unstarted, NotBeforeFirst
  <2>3. ~slEarly => i = slStarts /\ slServer = i
    BY <1>0, <2>p DEF Undisturbed, OthersAreThrough, LastStart
  <2>4. Undisturbed'
    BY <1>0, <2>p, <2>3 DEF Undisturbed, OthersAreThrough, LastStart
  <2>5. NeverShut'  BY <1>0, <2>p, <2>3 DEF NeverShut
  <2> QED  BY <2>1, <2>2, <2>4, <2>5
<1>2. CASE ListenerRefused(i) \/ ListenerShut(i)
  <2>1. PICK at \in {"sends", "closing"} : slListener' = [slListener EXCEPT ![i].at = at]
    BY <1>2, Zenon DEF ListenerRefused, ListenerShut
  <2>2. slListener'[i].at \in {"sends", "closing"}  BY <1>t, <2>1
  <2>3. \A j \in SStarts : j # i => slListener'[j] = slListener[j]  BY <1>t, <2>1
  <2>p. /\ slListener[i].at \in {"spawned", "serves"}
        /\ slListener[i].at = "serves" => slHttp[slListener[i].serves] = "closed"
        /\ UNCHANGED <<slRunning, slRegister, slServer, slErr, slStarts, slStart, slHub,
                       slHttp, slErrChans, slStop, slConn, slShut, slEarly, slPanic>>
    BY <1>2 DEF ListenerRefused, ListenerShut
  <2>c. slListener'[i].at = "sends" => slHttp[slServer] # "closed"
    BY <1>2, <1>t DEF ListenerRefused, ListenerShut
  <2>4. ServerTypeOK'
    <3>1. slListener' \in [SStarts -> [at : ListenerStates, serves : 0 .. MaxServerStarts]]
      BY <1>t, <2>1
    <3> QED  BY <2>p, <3>1 DEF ServerTypeOK
  <2>5. Unstarted' /\ NotBeforeFirst'
    BY <1>0, <2>2, <2>3, <2>p DEF Unstarted, NotBeforeFirst
  <2>6. ~slEarly => i = slStarts /\ slErr = i /\ slHttp[i] # "listening" /\ slServer = i
    BY <1>0, <2>p DEF Undisturbed, OthersAreThrough, LastStart
  <2>7. Undisturbed'
    BY <1>0, <2>2, <2>3, <2>p, <2>c, <2>6 DEF Undisturbed, OthersAreThrough, LastStart
  <2>8. NeverShut'  BY <2>p DEF NeverShut
  <2> QED  BY <2>4, <2>5, <2>7, <2>8
<1>3. CASE ListenerSends(i)
  <2>1. slListener' = [slListener EXCEPT ![i].at = "closing"]  BY <1>3 DEF ListenerSends
  <2>2. /\ slListener'[i].at = "closing"
        /\ \A j \in SStarts : j # i => slListener'[j] = slListener[j]
    BY <1>t, <2>1
  <2>p. /\ slListener[i].at = "sends"
        /\ \A j \in SStarts : j # slErr => slErrFull'[j] = slErrFull[j]
        /\ UNCHANGED <<slRunning, slRegister, slServer, slErr, slStarts, slStart, slHub,
                       slHttp, slErrClosed, slStop, slConn, slShut, slEarly>>
    BY <1>3, FieldTypes DEF ListenerSends
  <2>4. ServerTypeOK'
    <3>1. slListener' \in [SStarts -> [at : ListenerStates, serves : 0 .. MaxServerStarts]]
      BY <1>t, <2>1
    <3>2. slErrFull' \in [SStarts -> BOOLEAN]  BY <1>3, FieldTypes, Zenon DEF ListenerSends
    <3>3. slPanic' \in {"none", "send on startErr", "close of startErr", "close of register"}
      BY <1>3 DEF ListenerSends, ServerTypeOK
    <3> QED  BY <2>p, <3>1, <3>2, <3>3 DEF ServerTypeOK
  <2>5. Unstarted' /\ NotBeforeFirst'
    BY <1>0, <2>2, <2>p DEF Unstarted, NotBeforeFirst
  <2>6. ~slEarly => i = slStarts /\ slErr = i /\ slHttp[i] # "listening"
    BY <1>0, <2>p DEF Undisturbed, OthersAreThrough, LastStart
  <2>7. Undisturbed'
    BY <1>0, <2>2, <2>p, <2>6 DEF Undisturbed, OthersAreThrough, LastStart
  <2>8. NeverShut'  BY <2>p DEF NeverShut
  <2> QED  BY <2>4, <2>5, <2>7, <2>8
<1>4. CASE ListenerCloses(i)
  <2>1. slListener' = [slListener EXCEPT ![i].at = "done"]  BY <1>4 DEF ListenerCloses
  <2>2. /\ slListener'[i].at = "done"
        /\ \A j \in SStarts : j # i => slListener'[j] = slListener[j]
    BY <1>t, <2>1
  <2>p. /\ slListener[i].at = "closing"
        /\ \A j \in SStarts : j # slErr => slErrClosed'[j] = slErrClosed[j]
        /\ UNCHANGED <<slRunning, slRegister, slServer, slErr, slStarts, slStart, slHub,
                       slHttp, slErrFull, slStop, slConn, slShut, slEarly>>
    BY <1>4, FieldTypes DEF ListenerCloses
  <2>4. ServerTypeOK'
    <3>1. slListener' \in [SStarts -> [at : ListenerStates, serves : 0 .. MaxServerStarts]]
      BY <1>t, <2>1
    <3>2. slErrClosed' \in [SStarts -> BOOLEAN]  BY <1>4, FieldTypes, Zenon DEF ListenerCloses
    <3>3. slPanic' \in {"none", "send on startErr", "close of startErr", "close of register"}
      BY <1>4 DEF ListenerCloses, ServerTypeOK
    <3> QED  BY <2>p, <3>1, <3>2, <3>3 DEF ServerTypeOK
  <2>5. Unstarted' /\ NotBeforeFirst'
    BY <1>0, <2>2, <2>p DEF Unstarted, NotBeforeFirst
  <2>6. ~slEarly => i = slStarts /\ slErr = i /\ slHttp[i] # "listening"
    BY <1>0, <2>p DEF Undisturbed, OthersAreThrough, LastStart
  <2>7. Undisturbed'
    BY <1>0, <2>2, <2>p, <2>6 DEF Undisturbed, OthersAreThrough, LastStart
  <2>8. NeverShut'  BY <2>p DEF NeverShut
  <2> QED  BY <2>4, <2>5, <2>7, <2>8
<1> QED  BY <1>1, <1>2, <1>3, <1>4

(* The hub and the connections that come to it.                            *)
LEMMA HubInv ==
  ASSUME ServerInv, UNCHANGED slTaken,
         ConnArrives \/ ConnPanics \/ \E i \in SStarts : HubReceives(i) \/ HubEnds(i)
  PROVE  ServerInv'
<1> USE DEF ServerInv
<1>u. UNCHANGED <<slRunning, slRegister, slServer, slErr, slStarts, slStart, slHttp,
                  slListener, slErrChans, slStop, slShut, slEarly, slPanic, slTaken>>
  BY DEF ConnArrives, ConnPanics, HubReceives, HubEnds
<1>0. slStarts \in Nat  BY FieldNumbers
<1>1. Undisturbed' /\ NotBeforeFirst'
  BY <1>u DEF Undisturbed, OthersAreThrough, LastStart, NotBeforeFirst
<1>2. CASE ConnArrives \/ ConnPanics
  <2>1. UNCHANGED slHub /\ slConn' \in {"none", "registers"}
        /\ (slConn' = "registers" => \E i \in SStarts : slHttp[i] = "listening")
    BY <1>2 DEF ConnArrives, ConnPanics
  <2>2. ServerTypeOK'  BY <1>u, <2>1 DEF ServerTypeOK
  <2>3. Unstarted'  BY <1>u, <2>1 DEF Unstarted
  <2>4. NeverShut'  BY <1>u, <2>1 DEF NeverShut
  <2> QED  BY <1>1, <2>2, <2>3, <2>4
<1>3. ASSUME NEW i \in SStarts, HubReceives(i) \/ HubEnds(i) PROVE ServerInv'
  <2>p. /\ slHub[i] = "waits" /\ slConn' \in {"none", slConn}
        /\ slHub'[i] \in {"waits", "done"}
        /\ slHub'[i] = "done" => ~slRunning \/ ~slRegister
        /\ \A j \in SStarts : j # i => slHub'[j] = slHub[j]
    BY <1>3 DEF HubReceives, HubEnds, ServerTypeOK
  <2>1. slConn' \in {"none", "registers"}  BY <2>p DEF ServerTypeOK
  <2>t. slHub' \in [SStarts -> {"none", "waits", "done"}]
    <3>1. CASE HubReceives(i)  BY <3>1, FieldTypes DEF HubReceives
    <3>2. CASE HubEnds(i)  BY <3>2, FieldTypes DEF HubEnds
    <3> QED  BY <1>3, <3>1, <3>2
  <2>2. ServerTypeOK'  BY <1>u, <2>1, <2>t DEF ServerTypeOK
  <2>3. Unstarted'  BY <1>0, <1>u, <2>p DEF Unstarted
  <2>4. NeverShut'  BY <1>u, <2>p DEF NeverShut
  <2> QED  BY <1>1, <2>2, <2>3, <2>4
<1> QED  BY <1>2, <1>3

(* Shutdown closes the server of the last Start, which it cannot miss      *)
(* unless it has overtaken that Start.                                     *)
LEMMA ShutdownInv ==
  ASSUME ServerInv, UNCHANGED slTaken,
         StopEnters \/ StopClosesRegister \/ StopClosesServer
  PROVE  ServerInv'
<1> USE DEF ServerInv
<1>0. slStarts \in Nat /\ slServer \in Nat /\ slErr \in Nat  BY FieldNumbers
<1>1. CASE StopEnters
  <2>p. /\ slStop = "idle" /\ slRunning /\ slRunning' = FALSE /\ slStop' = "register"
        /\ slShut' = TRUE
        /\ UNCHANGED <<slRegister, slServer, slErr, slStarts, slStart, slHub, slHttp,
                       slListener, slErrChans, slConn, slPanic>>
    BY <1>1 DEF StopEnters
  <2>e. /\ slEarly' \in BOOLEAN
        /\ ~slEarly' => ~slEarly /\ \A i \in SStarts : slStart[i] \notin {"hub", "server"}
    <3>1. slEarly' = (slEarly \/ \E i \in SStarts : slStart[i] \in {"hub", "server"})
      BY <1>1, Zenon DEF StopEnters
    <3> QED  BY <3>1
  <2>1. ServerTypeOK'
    <3>1. slRunning' \in BOOLEAN /\ slShut' \in BOOLEAN  BY <2>p, Zenon
    <3> QED  BY <2>p, <2>e, <3>1 DEF ServerTypeOK
  <2>2. Unstarted'  BY <2>p DEF Unstarted
  <2>3. NotBeforeFirst'  BY <2>p DEF NotBeforeFirst
  <2>4. Undisturbed'  BY <2>p, <2>e DEF Undisturbed, OthersAreThrough, LastStart
  <2>5. NeverShut'  BY <2>p DEF NeverShut
  <2> QED  BY <2>1, <2>2, <2>3, <2>4, <2>5
<1>2. CASE StopClosesRegister
  <2>p. /\ slStop = "register" /\ slStop' = "server"
        /\ UNCHANGED <<slRunning, slServer, slErr, slStarts, slStart, slHub, slHttp,
                       slListener, slErrChans, slConn, slShut, slEarly>>
    BY <1>2 DEF StopClosesRegister
  <2>1. ServerTypeOK'
    <3>1. slRegister' \in BOOLEAN  BY <1>2, Zenon DEF StopClosesRegister
    <3>2. slPanic' \in {"none", "send on startErr", "close of startErr", "close of register"}
      BY <1>2 DEF StopClosesRegister, ServerTypeOK
    <3> QED  BY <2>p, <3>1, <3>2 DEF ServerTypeOK
  <2>2. Unstarted' /\ NotBeforeFirst'  BY <2>p DEF Unstarted, NotBeforeFirst
  <2>3. Undisturbed'  BY <2>p DEF Undisturbed, OthersAreThrough, LastStart
  <2>4. NeverShut'  BY <2>p DEF NeverShut
  <2> QED  BY <2>1, <2>2, <2>3, <2>4
<1>3. CASE StopClosesServer
  <2>p. /\ slStop = "server" /\ slStop' = "idle"
        /\ \A j \in SStarts : /\ j = slServer => slHttp'[j] = "closed"
                              /\ j # slServer => slHttp'[j] = slHttp[j]
        /\ UNCHANGED <<slRunning, slRegister, slServer, slErr, slStarts, slStart, slHub,
                       slListener, slErrChans, slConn, slShut, slEarly, slPanic>>
    BY <1>3 DEF StopClosesServer
  <2>1. ServerTypeOK'
    <3>1. slHttp' \in [SStarts -> {"none", "made", "listening", "closed"}]
      BY <1>3 DEF StopClosesServer, ServerTypeOK
    <3> QED  BY <2>p, <3>1 DEF ServerTypeOK
  <2>2. Unstarted'  BY <1>0, <2>p DEF Unstarted
  <2>3. slStarts # 0 /\ NotBeforeFirst'  BY <2>p DEF NotBeforeFirst
  <2>4. Undisturbed'  BY <2>p, <2>3 DEF Undisturbed, OthersAreThrough, LastStart
  <2>5. NeverShut'  BY <2>p DEF NeverShut
  <2> QED  BY <2>1, <2>2, <2>3, <2>4, <2>5
<1> QED  BY <1>1, <1>2, <1>3

LEMMA ServerStepInv == ServerInv /\ [ServerNext]_slVars => ServerInv'
<1>1. ServerInv /\ UNCHANGED slVars => ServerInv'
  <2> SUFFICES ASSUME ServerInv, UNCHANGED slVars PROVE ServerInv'  OBVIOUS
  <2>1. UNCHANGED <<slRunning, slRegister, slServer, slErr, slStarts, slStart, slHub, slHttp,
                    slListener, slErrChans, slStop, slConn, slShut, slEarly, slPanic, slTaken>>
    BY DEF slVars
  <2>2. ServerTypeOK'  BY <2>1 DEF ServerInv, ServerTypeOK
  <2>3. Unstarted' /\ NotBeforeFirst'  BY <2>1 DEF ServerInv, Unstarted, NotBeforeFirst
  <2>4. Undisturbed'  BY <2>1 DEF ServerInv, Undisturbed, OthersAreThrough, LastStart
  <2>5. NeverShut'  BY <2>1 DEF ServerInv, NeverShut
  <2> QED  BY <2>2, <2>3, <2>4, <2>5 DEF ServerInv
<1> QED
  BY <1>1, StartEntersInv, StartStepInv, ListenerInv, HubInv, ShutdownInv
     DEF ServerNext, StartStep

(* While no Shutdown has overtaken a Start and no Start an earlier one,    *)
(* the server, its listener and its channels are those of the last Start.  *)
THEOREM ServerInductive == ServerSpec => []ServerInv
<1> QED  BY ServerInitInv, ServerStepInv, PTL DEF ServerSpec

(* The fields and the goroutines of every Start keep their types.          *)
THEOREM ServerTypeCorrect == ServerSpec => []ServerTypeOK
<1>1. ServerInv => ServerTypeOK  BY DEF ServerInv
<1> QED  BY <1>1, ServerInductive, PTL

(* However often a server is started and shut down, it listens nowhere     *)
(* when it does not run, unless Starts and Shutdowns have overlapped.      *)
THEOREM ShutdownIsFinal == ServerSpec => []StopsListening
<1>1. ServerInv => StopsListening
  <2> SUFFICES ASSUME ServerInv, ~slRunning, slStop = "idle", ~slEarly,
                      NEW i \in SStarts, slHttp[i] = "listening"
               PROVE  FALSE
    BY DEF StopsListening
  <2> QED  BY DEF ServerInv, Undisturbed, OthersAreThrough, LastStart
<1> QED  BY <1>1, ServerInductive, PTL

(* Until the first Shutdown, whatever Starts have failed or timed out, a   *)
(* connection on its way to the hub finds one that lists it, unless a Start*)
(* began while the listener goroutine of a failed one had still to end.    *)
THEOREM HubAwaitsConnections == ServerSpec => []HubServesRunning
<1>1. ServerInv => HubServesRunning
  <2> SUFFICES ASSUME ServerInv, slConn = "registers", ~slShut, ~slEarly
               PROVE  slRunning /\ slRegister /\ \E i \in SStarts : slHub[i] = "waits"
    BY DEF HubServesRunning
  <2>1. PICK i \in SStarts : slHttp[i] = "listening"  BY DEF ServerInv, NeverShut
  <2>2. i = slStarts /\ slListener[i].at = "serves"
    BY <2>1 DEF ServerInv, Undisturbed, OthersAreThrough
  <2>3. slRunning /\ slStart[i] # "hub"
    BY <2>1, <2>2 DEF ServerInv, NeverShut, Undisturbed, LastStart
  <2> QED  BY <2>2, <2>3 DEF ServerInv, NeverShut
<1> QED  BY <1>1, ServerInductive, PTL
=============================================================================
