-------------------------- MODULE WsSessions_proofs --------------------------
(***************************************************************************)
(* Proofs about WsSessions for any number of connections, sessions,        *)
(* messages and observers.                                                 *)
(***************************************************************************)
EXTENDS WsSessions, SequenceTheorems, FiniteSetTheorems, TLAPS

(***************************************************************************)
(* Sequences without repetition, as the pool of ids is one.                *)
(***************************************************************************)

\* Taking the front id (GetId) leaves the other ids, each of them once.
LEMMA TailOfInjective ==
  ASSUME NEW S, NEW s \in Seq(S), s # <<>>, IsInjective(s)
  PROVE  /\ IsInjective(Tail(s))
         /\ Head(s) \in Range(s)
         /\ Range(Tail(s)) = Range(s) \ {Head(s)}
<1>1. /\ Len(s) \in Nat \ {0}
      /\ DOMAIN s = 1..Len(s)
      /\ Tail(s) \in Seq(S)
      /\ Len(Tail(s)) = Len(s) - 1
      /\ DOMAIN Tail(s) = 1..(Len(s) - 1)
      /\ \A i \in 1..(Len(s) - 1) : Tail(s)[i] = s[i + 1]
      /\ Head(s) = s[1]
  BY EmptySeq, LenProperties, HeadTailProperties, SMT
<1>2. IsInjective(Tail(s))
  <2>. SUFFICES ASSUME NEW a \in 1..(Len(s) - 1), NEW b \in 1..(Len(s) - 1),
                       Tail(s)[a] = Tail(s)[b]
                PROVE  a = b
    BY <1>1 DEF IsInjective
  <2>1. s[a + 1] = s[b + 1] /\ a + 1 \in 1..Len(s) /\ b + 1 \in 1..Len(s)
    BY <1>1
  <2>2. a + 1 = b + 1
    BY <2>1, <1>1 DEF IsInjective
  <2>. QED BY <2>2
<1>3. Head(s) \in Range(s)
  BY <1>1 DEF Range
<1>4. ASSUME NEW x \in Range(Tail(s)) PROVE x \in Range(s) \ {Head(s)}
  <2>1. PICK i \in 1..(Len(s) - 1) : x = Tail(s)[i]
    BY <1>1, <1>4 DEF Range
  <2>2. x = s[i + 1] /\ i + 1 \in 1..Len(s) /\ 1 \in 1..Len(s) /\ i + 1 # 1
    BY <1>1, <2>1
  <2>3. x \in Range(s)
    BY <2>2, <1>1 DEF Range
  <2>4. s[i + 1] # s[1]
    BY <2>2, <1>1 DEF IsInjective
  <2>. QED BY <2>2, <2>3, <2>4, <1>1
<1>5. ASSUME NEW x \in Range(s), x # Head(s) PROVE x \in Range(Tail(s))
  <2>1. PICK i \in 1..Len(s) : x = s[i]
    BY <1>1, <1>5 DEF Range
  <2>2. i - 1 \in 1..(Len(s) - 1) /\ (i - 1) + 1 = i
    BY <1>1, <2>1, <1>5
  <2>3. x = Tail(s)[i - 1]
    BY <1>1, <2>1, <2>2
  <2>. QED BY ZenonT(40), <2>2, <2>3, <1>1 DEF Range
<1>. QED BY <1>2, <1>3, <1>4, <1>5

\* Giving an id back (ReleaseId) that is not in the pool adds just that id.
LEMMA AppendToInjective ==
  ASSUME NEW S, NEW s \in Seq(S), NEW e \in S, e \notin Range(s), IsInjective(s)
  PROVE  /\ IsInjective(Append(s, e))
         /\ Range(Append(s, e)) = Range(s) \cup {e}
<1>1. /\ Len(s) \in Nat
      /\ DOMAIN s = 1..Len(s)
      /\ DOMAIN Append(s, e) = 1..(Len(s) + 1)
      /\ \A i \in 1..Len(s) : Append(s, e)[i] = s[i]
      /\ Append(s, e)[Len(s) + 1] = e
  BY LenProperties, AppendProperties
<1>2. \A i \in 1..Len(s) : Append(s, e)[i] # e
  BY <1>1 DEF Range
<1>3. IsInjective(Append(s, e))
  <2>. SUFFICES ASSUME NEW a \in 1..(Len(s) + 1), NEW b \in 1..(Len(s) + 1),
                       Append(s, e)[a] = Append(s, e)[b]
                PROVE  a = b
    BY <1>1 DEF IsInjective
  <2>1. CASE a = Len(s) + 1 \/ b = Len(s) + 1
    BY <2>1, <1>1, <1>2
  <2>2. CASE a \in 1..Len(s) /\ b \in 1..Len(s)
    BY <2>2, <1>1 DEF IsInjective
  <2>. QED BY <2>1, <2>2, <1>1
<1>4. Range(Append(s, e)) = Range(s) \cup {e}
  <2>1. ASSUME NEW x \in Range(Append(s, e)) PROVE x \in Range(s) \cup {e}
    <3>1. PICK i \in 1..(Len(s) + 1) : x = Append(s, e)[i]
      BY <1>1, <2>1 DEF Range
    <3>2. CASE i = Len(s) + 1 BY <3>1, <3>2, <1>1
    <3>3. CASE i \in 1..Len(s) BY <3>1, <3>3, <1>1 DEF Range
    <3>. QED BY <3>2, <3>3, <1>1
  <2>2. ASSUME NEW x \in Range(s) PROVE x \in Range(Append(s, e))
    <3>1. PICK i \in 1..Len(s) : x = s[i]
      BY <1>1, <2>2 DEF Range
    <3>2. x = Append(s, e)[i] /\ i \in 1..(Len(s) + 1)
      BY <3>1, <1>1
    <3>. QED BY <3>2, <1>1 DEF Range
  <2>3. e \in Range(Append(s, e))
    BY <1>1 DEF Range
  <2>. QED BY <2>1, <2>2, <2>3
<1>. QED BY <1>3, <1>4

-----------------------------------------------------------------------------
(***************************************************************************)
(* The inductive invariant.  IdsConserved, MapExact and LiveIdsUnique need *)
(* each other, the fact that a write pump runs only for an opened session, *)
(* and the fact that nothing is found in the map after Shutdown.           *)
(***************************************************************************)

\* Open starts the write pump, just before readPump begins.
PumpInv ==
  \A c \in Conns :
    handler[c] \notin {"reading", "signalling", "done"} => pump[c] = "off"

NilEmpty == mapNil => activeSessions = [i \in Ids |-> None]

SlotInv == NilEmpty /\ IdsConserved /\ MapExact /\ LiveIdsUnique

IInv == TypeOK /\ PumpInv /\ SlotInv

LEMMA InitIInv == Init => IInv
<1>. SUFFICES ASSUME Init PROVE IInv
  OBVIOUS
<1>. USE SessionConstants
<1>1. idPool \in Seq(1..MaxSessions) /\ DOMAIN idPool = 1..MaxSessions
  <2>1. idPool \in [1..MaxSessions -> 1..MaxSessions]
    BY DEF Init
  <2>. QED BY <2>1, SeqDef
<1>2. TypeOK
  <2>1. /\ told \in [Conns -> 0..NumObservers]
        /\ msgs \in [Conns -> 0..MaxMsgs]
        /\ procs \in [Conns -> Nat]
        /\ checked \in [Conns -> Nat]
        /\ queue \in [Conns -> 0..WriteCap]
        /\ sid \in [Conns -> Ids]
    BY DEF Init, Ids
  <2>2. /\ activeSessions \in [Ids -> Conns \cup {None}]
        /\ mapNil \in BOOLEAN
        /\ closed \in [Conns -> BOOLEAN]
        /\ openChan \in [Observers -> Conns \cup {None}]
        /\ closeChan \in [Observers -> Conns \cup {None}]
    BY ZenonT(40) DEF Init
  <2>3. /\ handler \in [Conns -> HandlerStates]
        /\ pump \in [Conns -> PumpStates]
        /\ sock \in [Conns -> SockStates]
        /\ status \in [Conns -> {0, 101, 400, 503}]
    BY DEF Init, HandlerStates, PumpStates, SockStates
  <2>. QED BY <1>1, <2>1, <2>2, <2>3 DEF TypeOK
<1>3. \A c \in Conns : ~Live(c)
  BY DEF Init, Live
<1>4. IdsConserved
  <2>1. IsInjective(idPool) /\ Range(idPool) = 1..MaxSessions
    BY DEF Init, IsInjective, Range
  <2>2. LiveIds = {}
    BY <1>3 DEF LiveIds
  <2>. QED BY <2>1, <2>2 DEF IdsConserved
<1>. QED
  BY <1>2, <1>3, <1>4
  DEF IInv, PumpInv, SlotInv, NilEmpty, MapExact, LiveIdsUnique, Init, Ids

-----------------------------------------------------------------------------
(* Facts about createSession and removeSession.                             *)

\* createSession ignores the error of GetId, and rightly: as long as the
\* map is not at capacity the pool is not empty.
LEMMA PoolNotEmpty ==
  ASSUME TypeOK, SlotInv, ~mapNil, ~atCapacity
  PROVE  idPool # <<>>
<1>. SUFFICES ASSUME idPool = <<>> PROVE FALSE
  OBVIOUS
<1>. USE SessionConstants
<1>. DEFINE Used == {i \in Ids : activeSessions[i] # None}
<1>1. Range(idPool) = {}
  BY DEF Range
<1>2. LiveIds = 1..MaxSessions
  BY ZenonT(40), <1>1 DEF SlotInv, IdsConserved
<1>3. 1..MaxSessions \subseteq Used
  <2>. SUFFICES ASSUME NEW i \in 1..MaxSessions PROVE i \in Used
    OBVIOUS
  <2>1. PICK c \in Conns : Live(c) /\ sid[c] = i
    BY ZenonT(40), <1>2 DEF LiveIds
  <2>2. activeSessions[i] = c
    BY <2>1 DEF SlotInv, MapExact, Ids
  <2>. QED BY <2>2 DEF Ids
<1>4. IsFiniteSet(Used)
  <2>1. IsFiniteSet(Ids) BY FS_Interval DEF Ids
  <2>. QED BY <2>1, FS_Subset
<1>5. Cardinality(1..MaxSessions) = MaxSessions
  BY FS_Interval
<1>6. Cardinality(Used) \in Nat /\ Cardinality(1..MaxSessions) <= Cardinality(Used)
  BY <1>3, <1>4, FS_Subset, FS_CardinalityType
<1>. QED BY <1>5, <1>6 DEF atCapacity, NumActive

\* Conversely, a connection is turned away only when no id is left.
LEMMA FullMeansEmptyPool ==
  ASSUME TypeOK, SlotInv, atCapacity
  PROVE  Range(idPool) = {}
<1>. USE SessionConstants
<1>. DEFINE Used == {i \in Ids : activeSessions[i] # None}
<1>1. Range(idPool) \subseteq 1..MaxSessions
  BY RangeOfSeq DEF TypeOK
<1>2. CASE mapNil
  <2>1. Used = {}
    BY <1>2 DEF SlotInv, NilEmpty
  <2>2. MaxSessions = 0
    BY <2>1, FS_EmptySet DEF atCapacity, NumActive
  <2>. QED BY <2>2, <1>1
<1>3. CASE ~mapNil
  <2>1. Used \subseteq LiveIds
    BY <1>3 DEF SlotInv, MapExact, LiveIds, TypeOK
  <2>2. LiveIds \subseteq 1..MaxSessions
    BY DEF LiveIds, SlotInv, LiveIdsUnique, TypeOK, Ids
  <2>3. IsFiniteSet(1..MaxSessions) /\ Cardinality(1..MaxSessions) = MaxSessions
    BY FS_Interval
  <2>4. Used \in SUBSET (1..MaxSessions)
    BY ZenonT(40), <2>1, <2>2
  <2>5. /\ IsFiniteSet(Used)
        /\ Cardinality(Used) <= MaxSessions
        /\ Cardinality(Used) = MaxSessions => Used = 1..MaxSessions
    BY ZenonT(40), <2>3, <2>4, FS_Subset
  <2>6. Cardinality(Used) \in Nat
    BY <2>5, FS_CardinalityType
  <2>7. Used = 1..MaxSessions
    BY <2>5, <2>6 DEF atCapacity, NumActive
  <2>. QED BY <1>1, <2>1, <2>7 DEF SlotInv, IdsConserved
<1>. QED BY <1>2, <1>3

\* removeSession finds its session unless the server was shut down.
LEMMA RemoveFindsOwn ==
  ASSUME TypeOK, PumpInv, SlotInv, NEW c \in Conns, pump[c] = "remove"
  PROVE  /\ Live(c)
         /\ sid[c] \in 1..MaxSessions
         /\ sid[c] \notin Range(idPool)
         /\ Registered(sid[c]) <=> ~mapNil
<1>. USE SessionConstants
<1>1. Live(c)
  BY DEF Live, PumpInv
<1>2. sid[c] \in 1..MaxSessions
  BY <1>1 DEF SlotInv, LiveIdsUnique, TypeOK, Ids
<1>3. sid[c] \notin Range(idPool)
  BY <1>1 DEF SlotInv, IdsConserved, LiveIds
<1>4. ASSUME ~mapNil PROVE Registered(sid[c])
  BY <1>1, <1>2, <1>4 DEF SlotInv, MapExact, Registered, Ids
<1>5. ASSUME mapNil PROVE ~Registered(sid[c])
  BY <1>2, <1>5 DEF SlotInv, NilEmpty, Registered, Ids
<1>. QED BY <1>1, <1>2, <1>3, <1>4, <1>5

-----------------------------------------------------------------------------
(* Type correctness.                                                        *)

LEMMA TypePreserved ==
  ASSUME TypeOK, PumpInv, SlotInv, [Next]_vars
  PROVE  TypeOK'
<1>. USE SessionConstants
     DEF TypeOK, Ids, Observers, HandlerStates, PumpStates, SockStates,
         managerVars, netVars, writeVars, chanVars, MoveHandler, MovePump
<1>0. PoolAfterGetId \in Seq(1..MaxSessions) /\ GetId \in Ids
  BY SMTT(40), HeadTailProperties DEF PoolAfterGetId, GetId
<1>1. ASSUME NEW c \in Conns, Upgrade(c) PROVE TypeOK'
  BY ZenonT(40), <1>1 DEF Upgrade
<1>2. ASSUME NEW c \in Conns, UpgradeFails(c) PROVE TypeOK'
  <2>1. (status \in [Conns -> {0, 101, 400, 503}])'
    <3>1. httpError(c, 400) \in [Conns -> {0, 101, 400, 503}]
      BY DEF httpError
    <3>. QED BY SMTT(40), <3>1, <1>2 DEF UpgradeFails
  <2>. QED BY ZenonT(40), <1>2, <2>1 DEF UpgradeFails, httpError
<1>3. ASSUME NEW c \in Conns, peerLeaves(c) PROVE TypeOK'
  <2>1. sock' \in [Conns -> SockStates]
    BY <1>3 DEF peerLeaves
  <2>. QED BY SMTT(40), <1>3, <2>1 DEF peerLeaves
<1>4. ASSUME NEW c \in Conns, createSession(c) PROVE TypeOK'
  <2>1. sid' \in [Conns -> Ids] /\ idPool' \in Seq(1..MaxSessions)
    BY <1>0, <1>4 DEF createSession
  <2>2. activeSessions' \in [Ids -> Conns \cup {None}]
    BY <1>0, <1>4 DEF createSession
  <2>3. handler' \in [Conns -> HandlerStates]
    BY <1>4 DEF createSession
  <2>4. UNCHANGED <<mapNil, pump, told, closed, netVars, writeVars, chanVars>>
    BY <1>4 DEF createSession
  <2>. QED BY ZenonT(40), <2>1, <2>2, <2>3, <2>4
<1>5. ASSUME NEW c \in Conns, createSessionFull(c) PROVE TypeOK'
  <2>1. status' \in [Conns -> {0, 101, 400, 503}]
    <3>1. httpError(c, 503) \in [Conns -> {0, 101, 400, 503}]
      BY DEF httpError
    <3>. QED BY <3>1, <1>5 DEF createSessionFull
  <2>2. handler' \in [Conns -> HandlerStates]
    BY <1>5 DEF createSessionFull
  <2>. QED BY ZenonT(40), <1>5, <2>1, <2>2 DEF createSessionFull, httpError
<1>6. ASSUME NEW c \in Conns, createSessionPanics(c) PROVE TypeOK'
  <2>1. sid' \in [Conns -> Ids] /\ idPool' \in Seq(1..MaxSessions)
    BY <1>0, <1>6 DEF createSessionPanics
  <2>2. handler' \in [Conns -> HandlerStates]
    BY <1>6 DEF createSessionPanics
  <2>. QED BY SMTT(40), <1>6, <2>1, <2>2 DEF createSessionPanics
<1>7. ASSUME NEW c \in Conns, notifyOpened(c) PROVE TypeOK'
  <2>1. (openChan \in [Observers -> Conns \cup {None}])'
    BY SMTT(40), <1>7 DEF notifyOpened
  <2>2. (told \in [Conns -> 0..NumObservers])'
    BY SMTT(40), <1>7 DEF notifyOpened
  <2>. QED BY ZenonT(40), <1>7, <2>1, <2>2 DEF notifyOpened
<1>8. ASSUME NEW c \in Conns, startPumps(c) PROVE TypeOK'
  <2>1. (told \in [Conns -> 0..NumObservers])'
    BY <1>8 DEF startPumps
  <2>. QED BY SMTT(40), <1>8, <2>1 DEF startPumps
<1>9. ASSUME NEW c \in Conns, readText(c) PROVE TypeOK'
  <2>1. (msgs \in [Conns -> 0..MaxMsgs])'
    BY SMTT(40), <1>9 DEF readText
  <2>2. (procs \in [Conns -> Nat])'
    BY SMTT(40), <1>9 DEF readText
  <2>. QED BY ZenonT(40), <1>9, <2>1, <2>2 DEF readText
<1>10. ASSUME NEW c \in Conns, readNonText(c) PROVE TypeOK'
  BY SMTT(40), <1>10 DEF readNonText
<1>11. ASSUME NEW c \in Conns, readFails(c) PROVE TypeOK'
  BY SMTT(40), <1>11 DEF readFails
<1>12. ASSUME NEW c \in Conns, signalClose(c) PROVE TypeOK'
  BY SMTT(40), <1>12 DEF signalClose
<1>13. ASSUME NEW c \in Conns, takeMessage(c) PROVE TypeOK'
  <2>1. (queue \in [Conns -> 0..WriteCap])'
    BY SMTT(40), <1>13 DEF takeMessage
  <2>. QED BY SMTT(40), <1>13, <2>1 DEF takeMessage
<1>14. ASSUME NEW c \in Conns, writeSucceeds(c) PROVE TypeOK'
  BY SMTT(40), <1>14 DEF writeSucceeds
<1>15. ASSUME NEW c \in Conns, writeFails(c) PROVE TypeOK'
  BY SMTT(40), <1>15 DEF writeFails
<1>16. ASSUME NEW c \in Conns, setClosed(c) PROVE TypeOK'
  BY ZenonT(40), <1>16 DEF setClosed
<1>17. ASSUME NEW c \in Conns, closeConn(c) PROVE TypeOK'
  BY SMTT(40), <1>17 DEF closeConn
<1>18. ASSUME NEW c \in Conns, removeSession(c) PROVE TypeOK'
  <2>1. ReleaseId(sid[c]) \in Seq(1..MaxSessions)
    BY ZenonT(40), <1>18, RemoveFindsOwn, AppendProperties DEF removeSession, ReleaseId
  <2>2. Deleted(sid[c]) \in [Ids -> Conns \cup {None}]
    BY DEF Deleted
  <2>3. idPool' \in Seq(1..MaxSessions)
    BY SMTT(40), <1>18, <2>1 DEF removeSession
  <2>4. activeSessions' \in [Ids -> Conns \cup {None}]
    BY SMTT(40), <1>18, <2>2 DEF removeSession
  <2>5. pump' \in [Conns -> PumpStates]
    BY <1>18 DEF removeSession
  <2>6. UNCHANGED <<mapNil, sid, handler, told, closed, netVars, writeVars, chanVars>>
    BY <1>18 DEF removeSession
  <2>. QED BY ZenonT(40), <2>3, <2>4, <2>5, <2>6
<1>19. ASSUME NEW c \in Conns, notifyClosed(c) PROVE TypeOK'
  <2>1. (closeChan \in [Observers -> Conns \cup {None}])'
    BY SMTT(40), <1>19 DEF notifyClosed, ClosingDone
  <2>2. (told \in [Conns -> 0..NumObservers])'
    BY SMTT(40), <1>19 DEF notifyClosed, ClosingDone
  <2>. QED BY ZenonT(40), <1>19, <2>1, <2>2 DEF notifyClosed, ClosingDone
<1>20. ASSUME NEW c \in Conns, pumpDone(c) PROVE TypeOK'
  BY SMTT(40), <1>20 DEF pumpDone
<1>21. ASSUME NEW c \in Conns, writeRejected(c) PROVE TypeOK'
  <2>1. (procs \in [Conns -> Nat])'
    BY SMTT(40), <1>21 DEF writeRejected
  <2>. QED BY ZenonT(40), <1>21, <2>1 DEF writeRejected
<1>22. ASSUME NEW c \in Conns, writeChecked(c) PROVE TypeOK'
  <2>1. (procs \in [Conns -> Nat])'
    BY SMTT(40), <1>22 DEF writeChecked
  <2>2. (checked \in [Conns -> Nat])'
    BY SMTT(40), <1>22 DEF writeChecked
  <2>. QED BY ZenonT(40), <1>22, <2>1, <2>2 DEF writeChecked
<1>23. ASSUME NEW c \in Conns, writeSend(c) PROVE TypeOK'
  <2>1. (checked \in [Conns -> Nat])'
    BY SMTT(40), <1>23 DEF writeSend, HasRoom
  <2>2. (queue \in [Conns -> 0..WriteCap])'
    BY SMTT(40), <1>23 DEF writeSend, HasRoom
  <2>. QED BY ZenonT(40), <1>23, <2>1, <2>2 DEF writeSend, HasRoom
<1>24. ASSUME NEW o \in Observers, observerReceives(o) PROVE TypeOK'
  <2>1. (openChan \in [Observers -> Conns \cup {None}])'
    <3>1. openChan' = [openChan EXCEPT ![o] = None] \/ openChan' = openChan
      BY <1>24 DEF observerReceives
    <3>. QED BY SMTT(40), <3>1
  <2>2. (closeChan \in [Observers -> Conns \cup {None}])'
    <3>1. closeChan' = [closeChan EXCEPT ![o] = None] \/ closeChan' = closeChan
      BY <1>24 DEF observerReceives
    <3>. QED BY SMTT(40), <3>1
  <2>. QED BY ZenonT(40), <1>24, <2>1, <2>2 DEF observerReceives
<1>25. CASE Shutdown
  BY SMTT(40), <1>25 DEF Shutdown
<1>26. CASE UNCHANGED vars
  BY SMTT(40), <1>26 DEF vars
<1>. QED
  BY ZenonT(40), <1>1, <1>2, <1>3, <1>4, <1>5, <1>6, <1>7, <1>8, <1>9,
     <1>10, <1>11, <1>12, <1>13, <1>14, <1>15, <1>16, <1>17, <1>18, <1>19, <1>20,
     <1>21, <1>22, <1>23, <1>24, <1>25, <1>26
  DEF Next, HandlerStep, CloseStep, WriterStep

-----------------------------------------------------------------------------
(* Preservation of the rest of the invariant.                               *)

LEMMA PumpPreserved ==
  ASSUME TypeOK, PumpInv, [Next]_vars
  PROVE  PumpInv'
<1>. USE DEF PumpInv, TypeOK
<1>1. ASSUME NEW c \in Conns,
             \/ Upgrade(c) \/ UpgradeFails(c) \/ createSession(c)
             \/ createSessionFull(c) \/ createSessionPanics(c)
      PROVE  PumpInv'
  <2>1. /\ handler[c] \in {"idle", "upgraded"}
        /\ pump' = pump
        /\ \A d \in Conns \ {c} : handler'[d] = handler[d]
    BY SMTT(40), <1>1 DEF Upgrade, UpgradeFails, createSession, createSessionFull,
                createSessionPanics, MoveHandler
  <2>. QED BY ZenonT(40), <2>1
<1>2. ASSUME NEW c \in Conns,
             startPumps(c) \/ readNonText(c) \/ readFails(c) \/ signalClose(c)
      PROVE  PumpInv'
  BY SMTT(40), <1>2
  DEF startPumps, readNonText, readFails, signalClose, MoveHandler, MovePump
<1>3. ASSUME NEW c \in Conns,
             takeMessage(c) \/ writeSucceeds(c) \/ writeFails(c) \/ CloseStep(c)
      PROVE  PumpInv'
  BY SMTT(40), <1>3 DEF takeMessage, writeSucceeds, writeFails, CloseStep, setClosed,
              closeConn, removeSession, notifyClosed, pumpDone, MovePump
<1>4. ASSUME NEW c \in Conns,
             \/ peerLeaves(c) \/ notifyOpened(c) \/ readText(c) \/ WriterStep(c)
      PROVE  PumpInv'
  BY SMTT(40), <1>4 DEF peerLeaves, notifyOpened, readText, WriterStep, writeRejected,
              writeChecked, writeSend
<1>5. ASSUME NEW o \in Observers, observerReceives(o) PROVE PumpInv'
  BY <1>5 DEF observerReceives
<1>6. CASE Shutdown BY <1>6 DEF Shutdown
<1>7. CASE UNCHANGED vars BY <1>7 DEF vars
<1>. QED
  BY SMTT(40), <1>1, <1>2, <1>3, <1>4, <1>5, <1>6, <1>7 DEF Next, HandlerStep

\* A step that leaves the manager, the ids and the set of live sessions alone.
Quiet ==
  /\ UNCHANGED <<idPool, activeSessions, mapNil, sid>>
  /\ \A d \in Conns : Live(d)' <=> Live(d)

LEMMA QuietKeepsSlots ==
  ASSUME SlotInv, Quiet
  PROVE  SlotInv'
<1>1. LiveIds' = LiveIds
  BY SMTT(40) DEF LiveIds, Quiet
<1>. QED
  BY SMTT(40), <1>1 DEF Quiet, SlotInv, NilEmpty, IdsConserved, MapExact, LiveIdsUnique

\* Every step but the three that touch the pool and Shutdown is quiet.
LEMMA OthersAreQuiet ==
  ASSUME TypeOK, PumpInv, [Next]_vars,
         ~Shutdown,
         \A c \in Conns : ~createSession(c) /\ ~createSessionPanics(c) /\ ~removeSession(c)
  PROVE  Quiet
<1>. USE DEF Quiet, TypeOK, PumpInv, Live, managerVars
<1>1. ASSUME NEW c \in Conns,
             Upgrade(c) \/ UpgradeFails(c) \/ createSessionFull(c) \/ startPumps(c)
      PROVE  Quiet
  BY SMTT(40), <1>1
  DEF Upgrade, UpgradeFails, createSessionFull, startPumps, MoveHandler
<1>2. ASSUME NEW c \in Conns, readNonText(c) \/ readFails(c) \/ signalClose(c)
      PROVE  Quiet
  BY SMTT(40), <1>2 DEF readNonText, readFails, signalClose, MoveHandler, MovePump
<1>3. ASSUME NEW c \in Conns,
             \/ takeMessage(c) \/ writeSucceeds(c) \/ writeFails(c) \/ setClosed(c)
             \/ closeConn(c) \/ notifyClosed(c) \/ pumpDone(c)
      PROVE  Quiet
  BY SMTT(40), <1>3 DEF takeMessage, writeSucceeds, writeFails, setClosed, closeConn,
              notifyClosed, pumpDone, MovePump
<1>4. ASSUME NEW c \in Conns,
             \/ peerLeaves(c) \/ notifyOpened(c) \/ readText(c) \/ WriterStep(c)
      PROVE  Quiet
  BY SMTT(40), <1>4 DEF peerLeaves, notifyOpened, readText, WriterStep, writeRejected,
              writeChecked, writeSend
<1>5. ASSUME NEW o \in Observers, observerReceives(o) PROVE Quiet
  BY <1>5 DEF observerReceives
<1>6. CASE UNCHANGED vars BY <1>6 DEF vars
<1>. QED
  BY ZenonT(40), <1>1, <1>2, <1>3, <1>4, <1>5, <1>6 DEF Next, HandlerStep, CloseStep

LEMMA CreateKeepsSlots ==
  ASSUME TypeOK, PumpInv, SlotInv, NEW c \in Conns, createSession(c)
  PROVE  /\ GetId \in Range(idPool)
         /\ Range(idPool') = Range(idPool) \ {GetId}
         /\ ~Live(c)
         /\ \A d \in Conns : Live(d)' <=> (d = c \/ Live(d))
         /\ SlotInv'
<1>. USE SessionConstants
<1>. DEFINE new == GetId
<1>1. idPool # <<>> /\ ~mapNil /\ ~mapNil'
  BY PoolNotEmpty DEF createSession
<1>2. /\ new = Head(idPool)
      /\ idPool' = Tail(idPool)
      /\ sid' = [sid EXCEPT ![c] = new]
      /\ activeSessions' = [activeSessions EXCEPT ![new] = c]
  BY <1>1 DEF createSession, GetId, PoolAfterGetId
<1>3. /\ IsInjective(idPool')
      /\ new \in Range(idPool)
      /\ Range(idPool') = Range(idPool) \ {new}
  BY SMTT(40), <1>1, <1>2, TailOfInjective DEF SlotInv, IdsConserved, TypeOK
<1>4. new \in 1..MaxSessions /\ new \in Ids
  BY SMTT(40), <1>3, RangeOfSeq DEF TypeOK, Ids
<1>5. ~Live(c) /\ \A d \in Conns : Live(d)' <=> (d = c \/ Live(d))
  BY SMTT(40) DEF createSession, MoveHandler, Live, PumpInv, TypeOK
<1>6. \A d \in Conns : sid'[d] = IF d = c THEN new ELSE sid[d]
  BY <1>2 DEF TypeOK
<1>7. LiveIds' = LiveIds \cup {new}
  BY <1>5, <1>6 DEF LiveIds
<1>8. new \notin LiveIds
  BY <1>3 DEF SlotInv, IdsConserved
<1>9. IdsConserved'
  BY <1>1, <1>3, <1>7, <1>8 DEF SlotInv, IdsConserved
<1>10. LiveIdsUnique'
  <2>1. \A d \in Conns : Live(d) => sid[d] # new
    BY <1>8 DEF LiveIds
  <2>. QED BY <2>1, <1>4, <1>5, <1>6 DEF SlotInv, LiveIdsUnique
<1>11. MapExact'
  <2>. SUFFICES ASSUME NEW i \in Ids, NEW d \in Conns
                PROVE  activeSessions'[i] = d <=> Live(d)' /\ sid'[d] = i
    BY DEF MapExact
  <2>1. activeSessions'[i] = IF i = new THEN c ELSE activeSessions[i]
    BY <1>2, <1>4 DEF TypeOK
  <2>2. activeSessions[i] = d <=> Live(d) /\ sid[d] = i
    BY <1>1 DEF SlotInv, MapExact
  <2>3. \A e \in Conns : Live(e) => sid[e] # new
    BY <1>8 DEF LiveIds
  <2>. QED BY <2>1, <2>2, <2>3, <1>5, <1>6
<1>. QED BY <1>1, <1>3, <1>5, <1>9, <1>10, <1>11 DEF SlotInv, NilEmpty

LEMMA PanicKeepsSlots ==
  ASSUME TypeOK, PumpInv, SlotInv, NEW c \in Conns, createSessionPanics(c)
  PROVE  /\ Range(idPool') = Range(idPool) \/ \E s \in Range(idPool) :
                                                Range(idPool') = Range(idPool) \ {s}
         /\ \A d \in Conns : Live(d)' <=> Live(d)
         /\ SlotInv'
<1>1. \A d \in Conns : Live(d)' <=> Live(d)
  BY SMTT(40) DEF createSessionPanics, MoveHandler, Live, TypeOK
<1>2. mapNil /\ mapNil' /\ sid' = sid /\ activeSessions' = activeSessions
  BY DEF createSessionPanics
<1>3. LiveIds' = LiveIds
  BY <1>1, <1>2 DEF LiveIds
<1>4. /\ IsInjective(idPool')
      /\ \/ Range(idPool') = Range(idPool)
         \/ \E s \in Range(idPool) : Range(idPool') = Range(idPool) \ {s}
  <2>1. CASE idPool = <<>>
    BY <2>1 DEF createSessionPanics, PoolAfterGetId, SlotInv, IdsConserved
  <2>2. CASE idPool # <<>>
    <3>1. idPool' = Tail(idPool)
      BY <2>2 DEF createSessionPanics, PoolAfterGetId
    <3>. QED BY ZenonT(40), <2>2, <3>1, TailOfInjective DEF SlotInv, IdsConserved, TypeOK
  <2>. QED BY <2>1, <2>2
<1>5. IdsConserved' /\ MapExact'
  BY SMTT(40), <1>2, <1>3, <1>4 DEF SlotInv, IdsConserved, MapExact
<1>6. LiveIdsUnique' /\ NilEmpty'
  BY <1>1, <1>2 DEF SlotInv, LiveIdsUnique, NilEmpty
<1>. QED BY <1>1, <1>4, <1>5, <1>6 DEF SlotInv

LEMMA RemoveKeepsSlots ==
  ASSUME TypeOK, PumpInv, SlotInv, NEW c \in Conns, removeSession(c)
  PROVE  /\ Range(idPool') = IF mapNil THEN Range(idPool) ELSE Range(idPool) \cup {sid[c]}
         /\ Live(c) /\ sid[c] # 0
         /\ \A d \in Conns : Live(d)' <=> (d # c /\ Live(d))
         /\ SlotInv'
<1>. USE SessionConstants
<1>1. /\ Live(c)
      /\ sid[c] \in 1..MaxSessions
      /\ sid[c] \notin Range(idPool)
      /\ Registered(sid[c]) <=> ~mapNil
  BY RemoveFindsOwn DEF removeSession, MovePump
<1>2. mapNil' = mapNil /\ sid' = sid
  BY DEF removeSession
<1>3. \A d \in Conns : Live(d)' <=> (d # c /\ Live(d))
  BY DEF removeSession, MovePump, Live, TypeOK
<1>4. LiveIds' = LiveIds \ {sid[c]}
  BY SMTT(40), <1>1, <1>2, <1>3 DEF LiveIds, SlotInv, LiveIdsUnique
<1>5. LiveIdsUnique'
  BY <1>2, <1>3 DEF SlotInv, LiveIdsUnique
<1>6. CASE mapNil
  <2>1. idPool' = idPool /\ activeSessions' = activeSessions
    BY <1>1, <1>6 DEF removeSession
  <2>. QED
    BY SMTT(40), <2>1, <1>1, <1>2, <1>3, <1>4, <1>5, <1>6
    DEF SlotInv, NilEmpty, IdsConserved, MapExact
<1>7. CASE ~mapNil
  <2>1. /\ idPool' = Append(idPool, sid[c])
        /\ activeSessions' = [activeSessions EXCEPT ![sid[c]] = None]
    BY SMTT(40), <1>1, <1>7 DEF removeSession, ReleaseId, Deleted
  <2>2. /\ IsInjective(idPool')
        /\ Range(idPool') = Range(idPool) \cup {sid[c]}
    <3>1. idPool \in Seq(1..MaxSessions) /\ IsInjective(idPool)
      BY DEF SlotInv, IdsConserved, TypeOK
    <3>. QED BY <1>1, <2>1, <3>1, AppendToInjective
  <2>3. IdsConserved'
    BY <1>1, <1>2, <1>4, <2>2 DEF SlotInv, IdsConserved
  <2>4. MapExact'
    <3>. SUFFICES ASSUME NEW i \in Ids, NEW d \in Conns
                  PROVE  activeSessions'[i] = d <=> Live(d)' /\ sid'[d] = i
      BY DEF MapExact
    <3>1. activeSessions'[i] = IF i = sid[c] THEN None ELSE activeSessions[i]
      BY <2>1 DEF TypeOK
    <3>2. activeSessions[i] = d <=> Live(d) /\ sid[d] = i
      BY <1>7 DEF SlotInv, MapExact
    <3>. QED
      BY SMTT(40), <1>1, <1>2, <1>3, <3>1, <3>2 DEF SlotInv, LiveIdsUnique
  <2>. QED BY <1>1, <1>2, <1>3, <1>5, <1>7, <2>2, <2>3, <2>4 DEF SlotInv, NilEmpty
<1>. QED BY <1>6, <1>7

LEMMA ShutdownKeepsSlots ==
  ASSUME SlotInv, Shutdown
  PROVE  SlotInv' /\ \A d \in Conns : Live(d)' <=> Live(d)
<1>1. \A d \in Conns : Live(d)' <=> Live(d)
  BY DEF Shutdown, Live
<1>2. LiveIds' = LiveIds
  BY <1>1 DEF LiveIds, Shutdown
<1>. QED
  BY ZenonT(40), <1>1, <1>2
  DEF Shutdown, SlotInv, NilEmpty, IdsConserved, MapExact, LiveIdsUnique

LEMMA SlotsPreserved ==
  ASSUME TypeOK, PumpInv, SlotInv, [Next]_vars
  PROVE  SlotInv'
<1>1. CASE \E c \in Conns : createSession(c) \/ createSessionPanics(c) \/ removeSession(c)
  BY <1>1, CreateKeepsSlots, PanicKeepsSlots, RemoveKeepsSlots
<1>2. CASE Shutdown
  BY <1>2, ShutdownKeepsSlots
<1>3. CASE /\ ~Shutdown
           /\ \A c \in Conns :
                ~createSession(c) /\ ~createSessionPanics(c) /\ ~removeSession(c)
  BY <1>3, OthersAreQuiet, QuietKeepsSlots
<1>. QED BY <1>1, <1>2, <1>3

\* Every reachable state of the websocket server satisfies the invariant.
THEOREM IInvHolds == Spec => []IInv
<1>1. IInv /\ [Next]_vars => IInv'
  BY TypePreserved, PumpPreserved, SlotsPreserved DEF IInv
<1>. QED BY InitIInv, <1>1, PTL DEF Spec

-----------------------------------------------------------------------------
(* The results.                                                             *)

\* The state of sessions, pumps, channels and the pool keeps its types: in
\* particular only ids from 1 to maxSessions are ever in the pool.
THEOREM TypeCorrect == Spec => []TypeOK
<1>1. IInv => TypeOK
  BY DEF IInv
<1>. QED BY IInvHolds, <1>1, PTL

\* createSession and removeSession neither lose nor duplicate an id.
THEOREM IdsAreConserved == Spec => []IdsConserved
<1>1. IInv => IdsConserved
  BY DEF IInv, SlotInv
<1>. QED BY IInvHolds, <1>1, PTL

\* Until Shutdown, activeSessions holds exactly the live sessions.
THEOREM MapIsExact == Spec => []MapExact
<1>1. IInv => MapExact
  BY DEF IInv, SlotInv
<1>. QED BY IInvHolds, <1>1, PTL

\* No two live sessions share an id and none has the id 0.
THEOREM LiveIdsAreUnique == Spec => []LiveIdsUnique
<1>1. IInv => LiveIdsUnique
  BY DEF IInv, SlotInv
<1>. QED BY IInvHolds, <1>1, PTL

\* At most maxSessions sessions are live: their ids map them one to one into
\* 1..maxSessions.
THEOREM CapacityIsBound == Spec => []CapacityBound
<1>1. IInv => CapacityBound
  <2>. SUFFICES ASSUME IInv PROVE CapacityBound
    OBVIOUS
  <2>. USE SessionConstants
  <2>. DEFINE L == {c \in Conns : Live(c)}
              f == [c \in L |-> sid[c]]
  <2>1. f \in [L -> 1..MaxSessions]
    BY DEF IInv, SlotInv, LiveIdsUnique, TypeOK, Ids
  <2>2. IsInjective(f)
    BY DEF IInv, SlotInv, LiveIdsUnique, IsInjective
  <2>3. f \in Injection(L, 1..MaxSessions)
    BY <2>1, <2>2 DEF Injection
  <2>4. IsFiniteSet(1..MaxSessions) /\ Cardinality(1..MaxSessions) = MaxSessions
    BY FS_Interval
  <2>5. Cardinality(L) <= MaxSessions
    BY <2>3, <2>4, FS_Injection
  <2>. QED BY <2>5 DEF CapacityBound
<1>. QED BY IInvHolds, <1>1, PTL

\* What a close channel holds was put there by notifyClosed, at the end of
\* Close.
CloseInv ==
  \A o \in Observers, c \in Conns :
    closeChan[o] = c => pump[c] \in {"notify", "done"}

\* A close event is sent after the open events and after the id is released.
THEOREM ClosesAreAnnouncedLate == Spec => []CloseAnnouncedLate
<1>. USE SessionConstants
<1>1. Init => CloseInv
  BY DEF Init, CloseInv
<1>2. IInv /\ CloseInv /\ [Next]_vars => CloseInv'
  <2>. SUFFICES ASSUME TypeOK, PumpInv, CloseInv, [Next]_vars PROVE CloseInv'
    BY DEF IInv
  <2>1. \A c \in Conns : pump[c] \in {"notify", "done"} => pump'[c] \in {"notify", "done"}
    <3>1. ASSUME NEW c \in Conns,
                 \/ signalClose(c) \/ takeMessage(c) \/ writeSucceeds(c)
                 \/ writeFails(c) \/ setClosed(c) \/ closeConn(c)
                 \/ removeSession(c) \/ startPumps(c)
          PROVE  /\ pump[c] \notin {"notify", "done"}
                 /\ \A d \in Conns \ {c} : pump'[d] = pump[d]
      <4>1. CASE startPumps(c)
        <5>1. pump[c] = "off"
          BY <4>1 DEF startPumps, MoveHandler, PumpInv
        <5>2. pump' = [pump EXCEPT ![c] = "select"]
          BY <4>1 DEF startPumps
        <5>. QED BY <5>1, <5>2 DEF TypeOK
      <4>2. CASE removeSession(c)
        BY <4>2 DEF removeSession, MovePump, TypeOK
      <4>3. CASE signalClose(c) \/ takeMessage(c) \/ writeSucceeds(c)
        BY SMTT(40), <4>3 DEF signalClose, takeMessage, writeSucceeds, MovePump, TypeOK
      <4>4. CASE writeFails(c) \/ setClosed(c) \/ closeConn(c)
        BY SMTT(40), <4>4 DEF writeFails, setClosed, closeConn, MovePump, TypeOK
      <4>. QED BY ZenonT(40), <3>1, <4>1, <4>2, <4>3, <4>4
    <3>2. ASSUME NEW c \in Conns, pumpDone(c)
          PROVE  pump' = [pump EXCEPT ![c] = "done"]
      BY <3>2 DEF pumpDone, MovePump
    <3>3. CASE \E c \in Conns :
                 \/ signalClose(c) \/ takeMessage(c) \/ writeSucceeds(c)
                 \/ writeFails(c) \/ setClosed(c) \/ closeConn(c)
                 \/ removeSession(c) \/ pumpDone(c) \/ startPumps(c)
      BY SMTT(40), <3>1, <3>2, <3>3 DEF TypeOK
    <3>4. CASE pump' = pump
      BY <3>4
    <3>. QED
      BY ZenonT(40), <3>3, <3>4
      DEF Next, HandlerStep, CloseStep, WriterStep, vars, Upgrade, UpgradeFails,
          peerLeaves, createSession, createSessionFull, createSessionPanics,
          notifyOpened, readText, readNonText, readFails, notifyClosed,
          writeRejected, writeChecked, writeSend, observerReceives, Shutdown
  <2>2. CASE \E c \in Conns : notifyClosed(c)
    BY SMTT(40), <2>1, <2>2 DEF CloseInv, TypeOK, notifyClosed, ClosingDone, Observers
  <2>3. CASE \E o \in Observers : observerReceives(o)
    <3>1. \A o \in Observers : closeChan'[o] \in {closeChan[o], None}
      BY <2>3 DEF TypeOK, observerReceives
    <3>. QED BY <2>1, <3>1 DEF CloseInv
  <2>4. CASE closeChan' = closeChan
    BY <2>1, <2>4 DEF CloseInv
  <2>5. ASSUME NEW c \in Conns,
               \/ Upgrade(c) \/ UpgradeFails(c) \/ peerLeaves(c) \/ createSession(c)
               \/ createSessionFull(c) \/ createSessionPanics(c)
        PROVE  closeChan' = closeChan
    BY SMTT(40), <2>5
    DEF Upgrade, UpgradeFails, peerLeaves, createSession, createSessionFull,
                createSessionPanics, chanVars
  <2>6. ASSUME NEW c \in Conns,
               \/ notifyOpened(c) \/ startPumps(c) \/ readText(c) \/ readNonText(c)
               \/ readFails(c) \/ signalClose(c)
        PROVE  closeChan' = closeChan
    BY ZenonT(40), <2>6
    DEF notifyOpened, startPumps, readText, readNonText, readFails, signalClose,
                chanVars
  <2>7. ASSUME NEW c \in Conns,
               \/ takeMessage(c) \/ writeSucceeds(c) \/ writeFails(c) \/ setClosed(c)
               \/ closeConn(c) \/ removeSession(c) \/ pumpDone(c)
        PROVE  closeChan' = closeChan
    BY SMTT(40), <2>7 DEF takeMessage, writeSucceeds, writeFails, setClosed, closeConn,
                removeSession, pumpDone, chanVars
  <2>8. ASSUME NEW c \in Conns, WriterStep(c) PROVE closeChan' = closeChan
    BY SMTT(40), <2>8 DEF WriterStep, writeRejected, writeChecked, writeSend, chanVars
  <2>9. ASSUME Shutdown \/ UNCHANGED vars PROVE closeChan' = closeChan
    BY <2>9 DEF Shutdown, vars, chanVars
  <2>. QED
    BY ZenonT(40), <2>2, <2>3, <2>4, <2>5, <2>6, <2>7, <2>8, <2>9
    DEF Next, HandlerStep, CloseStep
<1>3. IInv /\ CloseInv => CloseAnnouncedLate
  BY DEF IInv, PumpInv, CloseInv, CloseAnnouncedLate, Live
<1>. QED BY <1>1, <1>2, <1>3, IInvHolds, PTL DEF Spec

\* The detailed server implements the abstract slots: every step of the
\* server is a step of SessionSlots or leaves its variables unchanged.
THEOREM ServerImplementsSlots == Spec => ImplementsSlots
<1>. USE SessionConstants
<1>. DEFINE aslot == [c \in Conns |-> IF Live(c) THEN sid[c] ELSE 0]
            arefused == {c \in Conns : handler[c] = "refused"}
<1>1. Init => Slots!Init
  BY SMTT(40) DEF Init, Slots!Init, Live, Range
<1>2. IInv /\ [Next]_vars => [Slots!Next]_(Slots!vars)
  <2>. SUFFICES ASSUME TypeOK, PumpInv, SlotInv, [Next]_vars
                PROVE  Slots!Next \/ UNCHANGED Slots!vars
    BY DEF IInv
  <2>1. ASSUME NEW c \in Conns, createSession(c) PROVE Slots!Acquire(c)
    <3>1. /\ GetId \in Range(idPool)
          /\ Range(idPool') = Range(idPool) \ {GetId}
          /\ ~Live(c)
          /\ \A d \in Conns : Live(d)' <=> (d = c \/ Live(d))
      BY <2>1, CreateKeepsSlots
    <3>2. aslot' = [aslot EXCEPT ![c] = GetId]
      BY ZenonT(40), <2>1, <3>1 DEF createSession, TypeOK
    <3>3. arefused' = arefused /\ ~mapNil /\ mapNil' = mapNil
      BY SMTT(40), <2>1 DEF createSession, MoveHandler, TypeOK
    <3>. QED BY ZenonT(40), <3>1, <3>2, <3>3 DEF Slots!Acquire
  <2>2. ASSUME NEW c \in Conns, createSessionPanics(c)
        PROVE  Slots!Waste \/ UNCHANGED Slots!vars
    <3>1. aslot' = aslot /\ arefused' = arefused /\ mapNil /\ mapNil' = mapNil
      <4>1. (\A d \in Conns : Live(d)' <=> Live(d)) /\ sid' = sid
        BY <2>2, PanicKeepsSlots DEF createSessionPanics
      <4>2. aslot' = aslot
        BY <4>1
      <4>. QED BY SMTT(40), <2>2, <4>2 DEF createSessionPanics, MoveHandler, TypeOK
    <3>2. CASE Range(idPool') = Range(idPool)
      BY <3>1, <3>2 DEF Slots!vars
    <3>3. CASE \E s \in Range(idPool) : Range(idPool') = Range(idPool) \ {s}
      BY SMTT(40), <3>1, <3>3 DEF Slots!Waste
    <3>. QED BY <2>2, <3>2, <3>3, PanicKeepsSlots
  <2>3. ASSUME NEW c \in Conns, removeSession(c) PROVE Slots!Release(c)
    <3>1. /\ Range(idPool') = IF mapNil THEN Range(idPool)
                                        ELSE Range(idPool) \cup {sid[c]}
          /\ Live(c) /\ sid[c] # 0
          /\ \A d \in Conns : Live(d)' <=> (d # c /\ Live(d))
      BY <2>3, RemoveKeepsSlots
    <3>2. aslot' = [aslot EXCEPT ![c] = 0] /\ aslot[c] = sid[c]
      <4>1. sid' = sid
        BY <2>3 DEF removeSession
      <4>. QED BY ZenonT(40), <3>1, <4>1
    <3>3. arefused' = arefused /\ mapNil' = mapNil
      BY <2>3 DEF removeSession
    <3>. QED BY SMTT(40), <3>1, <3>2, <3>3 DEF Slots!Release
  <2>4. CASE Shutdown
    <3>1. aslot' = aslot /\ arefused' = arefused /\ idPool' = idPool /\ mapNil'
      BY SMTT(40), <2>4, ShutdownKeepsSlots DEF Shutdown
    <3>2. Range(idPool') = Range(idPool)
      BY <3>1
    <3>3. CASE mapNil
      BY ZenonT(40), <3>1, <3>2, <3>3 DEF Slots!vars
    <3>4. CASE ~mapNil
      <4>1. Slots!ShutDown
        BY ZenonT(40), <3>1, <3>2, <3>4 DEF Slots!ShutDown
      <4>. QED BY ZenonT(40), <4>1 DEF Slots!Next
    <3>. QED BY <3>3, <3>4
  <2>5. ASSUME ~Shutdown,
               \A c \in Conns : /\ ~createSession(c)
                                /\ ~createSessionPanics(c)
                                /\ ~removeSession(c)
        PROVE  Slots!Next \/ UNCHANGED Slots!vars
    <3>1. aslot' = aslot /\ idPool' = idPool /\ mapNil' = mapNil
      BY <2>5, OthersAreQuiet DEF Quiet
    <3>2. ASSUME NEW c \in Conns, createSessionFull(c)
          PROVE  Slots!Refuse(c)
      <4>1. arefused' = arefused \cup {c}
        BY SMTT(40), <3>2 DEF createSessionFull, MoveHandler, TypeOK
      <4>2. Range(idPool) = {}
        BY <3>2, FullMeansEmptyPool DEF createSessionFull
      <4>. QED BY SMTT(40), <3>1, <4>1, <4>2 DEF Slots!Refuse
    <3>3. CASE \A c \in Conns : ~createSessionFull(c)
      <4>1. \A c \in Conns : handler'[c] = "refused" <=> handler[c] = "refused"
        <5>1. ASSUME NEW c \in Conns,
                     \/ Upgrade(c) \/ UpgradeFails(c) \/ startPumps(c)
                     \/ readNonText(c) \/ readFails(c) \/ signalClose(c)
              PROVE  \E from, to \in HandlerStates \ {"refused"} :
                       handler[c] = from /\ handler' = [handler EXCEPT ![c] = to]
          BY SMTT(40), <5>1
          DEF Upgrade, UpgradeFails, startPumps, readNonText, readFails,
                      signalClose, MoveHandler, HandlerStates
        <5>2. CASE \E c \in Conns :
                     \/ Upgrade(c) \/ UpgradeFails(c) \/ startPumps(c)
                     \/ readNonText(c) \/ readFails(c) \/ signalClose(c)
          BY SMTT(40), <5>1, <5>2 DEF TypeOK
        <5>3. CASE handler' = handler
          BY <5>3
        <5>4. ASSUME NEW c \in Conns,
                     \/ peerLeaves(c) \/ notifyOpened(c) \/ readText(c) \/ takeMessage(c)
                     \/ writeSucceeds(c) \/ writeFails(c)
              PROVE  handler' = handler
          BY SMTT(40), <5>4
          DEF peerLeaves, notifyOpened, readText, takeMessage, writeSucceeds,
                      writeFails
        <5>5. ASSUME NEW c \in Conns,
                     \/ setClosed(c) \/ closeConn(c) \/ notifyClosed(c) \/ pumpDone(c)
                     \/ WriterStep(c)
              PROVE  handler' = handler
          BY SMTT(40), <5>5
          DEF setClosed, closeConn, notifyClosed, pumpDone, WriterStep,
                      writeRejected, writeChecked, writeSend
        <5>6. ASSUME (\E o \in Observers : observerReceives(o)) \/ UNCHANGED vars
              PROVE  handler' = handler
          BY <5>6 DEF observerReceives, vars
        <5>. QED
          BY ZenonT(40), <2>5, <3>3, <5>2, <5>3, <5>4, <5>5, <5>6
          DEF Next, HandlerStep, CloseStep
      <4>2. arefused' = arefused
        BY <4>1
      <4>. QED BY SMTT(40), <3>1, <4>2 DEF Slots!vars
    <3>. QED BY <3>2, <3>3 DEF Slots!Next
  <2>. QED BY <2>1, <2>2, <2>3, <2>4, <2>5 DEF Slots!Next
<1>. QED BY <1>1, <1>2, IInvHolds, PTL DEF Spec, ImplementsSlots, Slots!Spec
=============================================================================
