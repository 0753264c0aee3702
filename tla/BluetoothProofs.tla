-------------------------- MODULE BluetoothProofs --------------------------
(***************************************************************************)
(* Proofs about Bluetooth, for any number of calls and devices, any        *)
(* timeout and any number of events of the environment.                    *)
(***************************************************************************)
EXTENDS Bluetooth, SequenceTheorems, TLAPS

-----------------------------------------------------------------------------
(* The worker thread's queue *)

LEMMA AnnounceKeeps ==
  ASSUME broadcasts \in Seq(Broadcasts), NEW b \in Broadcasts, Announce(b)
  PROVE  /\ broadcasts' \in Seq(Broadcasts)
         /\ Announced(b)'
         /\ \A x : Announced(x) => Announced(x)'
<1>1. /\ broadcasts' \in Seq(Broadcasts)
      /\ Len(broadcasts') = Len(broadcasts) + 1
      /\ \A i \in 1 .. Len(broadcasts) : broadcasts'[i] = broadcasts[i]
      /\ broadcasts'[Len(broadcasts) + 1] = b
  BY AppendProperties DEF Announce
<1>2. Len(broadcasts) \in Nat
  OBVIOUS
<1> QED BY <1>1, <1>2 DEF Announced

LEMMA ReceiveKeeps ==
  ASSUME broadcasts \in Seq(Broadcasts), broadcasts # <<>>, broadcasts' = Tail(broadcasts)
  PROVE  /\ broadcasts' \in Seq(Broadcasts)
         /\ \A x : Announced(x) /\ x # Head(broadcasts) => Announced(x)'
<1>1. /\ broadcasts' \in Seq(Broadcasts)
      /\ Len(broadcasts') = Len(broadcasts) - 1
      /\ \A i \in 1 .. Len(broadcasts') : broadcasts'[i] = broadcasts[i + 1]
      /\ DOMAIN broadcasts' = 1 .. Len(broadcasts')
  BY HeadTailProperties
<1>2. Len(broadcasts) \in Nat /\ Head(broadcasts) = broadcasts[1]
  OBVIOUS
<1>3. ASSUME NEW x, NEW i \in 1 .. Len(broadcasts), broadcasts[i] = x, x # Head(broadcasts)
      PROVE  Announced(x)'
  <2>1. i - 1 \in 1 .. Len(broadcasts') /\ broadcasts'[i - 1] = x
    BY <1>1, <1>2, <1>3
  <2> QED BY <2>1, <1>1 DEF Announced
<1> QED BY <1>1, <1>3 DEF Announced

-----------------------------------------------------------------------------
(* The three ways in which a thread goes on *)

LEMMA GotoTypes ==
  ASSUME ThreadTypes, NEW t \in Threads, NEW where \in InPair \cup InRead \cup InDiscovery,
         where \in InPair \cup InRead => address[t] \in Addresses, Goto(t, where)
  PROVE  ThreadTypes'
  BY DEF ThreadTypes, Goto, InPair, InRead, InDiscovery, Outcomes

LEMMA CallTypes ==
  ASSUME ThreadTypes, NEW t \in Threads, NEW a \in Addresses, NEW where \in InPair \cup InRead,
         Call(t, a, where)
  PROVE  ThreadTypes'
  BY DEF ThreadTypes, Call, InPair, InRead, InDiscovery, Outcomes

LEMMA ReturnTypes ==
  ASSUME ThreadTypes, NEW t \in Threads, NEW outcome \in Outcomes, Return(t, outcome)
  PROVE  ThreadTypes'
  BY BluetoothAssumption DEF ThreadTypes, Return, InPair, InRead, InDiscovery, Outcomes

(* A thread that has no entry, or takes its own away, leaves the others'. *)
LEMMA OwnersStay ==
  ASSUME IInv, NEW t \in Threads,
         \A u \in Threads \ {t} : pc'[u] = pc[u] /\ address'[u] = address[u],
         pc[t] \in {"pairWaiting", "pairWoken"} => address[t] \notin pairing',
         pc[t] \in {"readWaiting", "readWoken"} => address[t] \notin fetching',
         pairing' \subseteq pairing, fetching' \subseteq fetching
  PROVE  EntriesHaveOwner'
<1>1. ASSUME NEW d \in pairing'
      PROVE  \E u \in Threads : pc'[u] \in {"pairWaiting", "pairWoken"} /\ address'[u] = d
  <2>1. PICK u \in Threads : pc[u] \in {"pairWaiting", "pairWoken"} /\ address[u] = d
    BY <1>1 DEF IInv, EntriesHaveOwner
  <2> QED BY <2>1, <1>1
<1>2. ASSUME NEW d \in fetching'
      PROVE  \E u \in Threads : pc'[u] \in {"readWaiting", "readWoken"} /\ address'[u] = d
  <2>1. PICK u \in Threads : pc[u] \in {"readWaiting", "readWoken"} /\ address[u] = d
    BY <1>2 DEF IInv, EntriesHaveOwner
  <2> QED BY <2>1, <1>2
<1> QED BY <1>1, <1>2 DEF EntriesHaveOwner

(* A thread that waits for its device owns its entry; the others keep theirs. *)
LEMMA WaiterOwns ==
  ASSUME IInv, NEW t \in Threads,
         \A u \in Threads \ {t} : pc'[u] = pc[u] /\ address'[u] = address[u],
         address'[t] = address[t],
         \/ /\ pc[t] \in InPair /\ pc'[t] = "pairWaiting"
            /\ pairing' \subseteq pairing \cup {address[t]} /\ UNCHANGED fetching
         \/ /\ pc[t] \in InRead /\ pc'[t] \in {"readWaiting", "readWoken"}
            /\ fetching' \subseteq fetching \cup {address[t]} /\ UNCHANGED pairing
  PROVE  EntriesHaveOwner'
<1>1. ASSUME NEW d \in pairing'
      PROVE  \E u \in Threads : pc'[u] \in {"pairWaiting", "pairWoken"} /\ address'[u] = d
  <2>1. d \in pairing => \E u \in Threads : pc[u] \in {"pairWaiting", "pairWoken"} /\ address[u] = d
    BY DEF IInv, EntriesHaveOwner
  <2> QED BY <2>1, <1>1 DEF InPair, InRead
<1>2. ASSUME NEW d \in fetching'
      PROVE  \E u \in Threads : pc'[u] \in {"readWaiting", "readWoken"} /\ address'[u] = d
  <2>1. d \in fetching => \E u \in Threads : pc[u] \in {"readWaiting", "readWoken"} /\ address[u] = d
    BY DEF IInv, EntriesHaveOwner
  <2> QED BY <2>1, <1>2 DEF InPair, InRead
<1> QED BY <1>1, <1>2 DEF EntriesHaveOwner

-----------------------------------------------------------------------------
(* The inductive invariant *)

LEMMA InitIInv == Init => IInv
<1> SUFFICES ASSUME Init PROVE IInv
  OBVIOUS
<1>1. TypeOK
  <2>1. broadcasts \in Seq(Broadcasts)
    BY DEF Init
  <2>2. ThreadTypes
    BY BluetoothAssumption DEF Init, ThreadTypes, InPair, InRead, InDiscovery, Outcomes
  <2>3. SetTypes /\ FlagTypes
    BY BluetoothAssumption DEF Init, SetTypes, FlagTypes
  <2> QED BY <2>1, <2>2, <2>3, BluetoothAssumption DEF Init, TypeOK
<1>2. EntriesHaveOwner /\ PairerWillBeWoken /\ DiscoveryWillStop
  BY DEF Init, EntriesHaveOwner, PairerWillBeWoken, DiscoveryWillStop, InPair, InRead
<1>3. OverlapsSpoil /\ HasteSpoils /\ HeardIsFetched /\ EndlessIsWanted
  BY DEF Init, OverlapsSpoil, HasteSpoils, HeardIsFetched, EndlessIsWanted, InPair, InRead
<1> QED BY <1>1, <1>2, <1>3 DEF IInv

LEMMA PairDeviceStep ==
  ASSUME IInv, NEW t \in Threads, NEW a \in Addresses, PairDevice(t, a)
  PROVE  IInv'
<1>1. broadcasts' \in Seq(Broadcasts) /\ (\A x : Announced(x) => Announced(x)')
  BY DEF IInv, TypeOK, Announced, PairDevice, Call, Return
<1>2. ThreadTypes'
  BY CallTypes, ReturnTypes DEF IInv, TypeOK, PairDevice, InPair, Outcomes
<1>3. SetTypes'
  BY DEF IInv, TypeOK, SetTypes, ThreadTypes, PairDevice, Call, Return, mapVars, bondVars,
         uuidVars, scanVars, InPair, InRead, InDiscovery, Outcomes
<1>4. FlagTypes'
  BY DEF IInv, TypeOK, FlagTypes, PairDevice, Call, Return, mapVars, bondVars, uuidVars,
         scanVars
<1>5. TypeOK'
  BY <1>1, <1>2, <1>3, <1>4, BluetoothAssumption
     DEF IInv, TypeOK, PairDevice, Call, Return, mapVars, bondVars, uuidVars, scanVars
<1>6. EntriesHaveOwner'
  BY OwnersStay DEF IInv, TypeOK, ThreadTypes, PairDevice, Call, Return, mapVars
<1>7. PairerWillBeWoken'
  BY <1>1
     DEF IInv, TypeOK, ThreadTypes, PairerWillBeWoken, SameDevice, OverlapsSpoil,
         PairDevice, Call, Return,
         mapVars, bondVars, uuidVars, scanVars, InPair, InRead, InDiscovery, Outcomes
<1>8. OverlapsSpoil'
  BY DEF IInv, TypeOK, ThreadTypes, OverlapsSpoil, SameDevice, PairDevice, Call, Return,
         mapVars, bondVars,
         uuidVars, scanVars, InPair, InRead, InDiscovery, Outcomes
<1>9. HasteSpoils'
  BY DEF IInv, TypeOK, ThreadTypes, HasteSpoils, OverlapsSpoil, SameDevice, PairDevice,
         Call, Return,
         mapVars, bondVars, uuidVars, scanVars, InPair, InRead, InDiscovery, Outcomes
<1>10. HeardIsFetched'
  BY DEF IInv, TypeOK, ThreadTypes, SetTypes, HeardIsFetched, PairDevice, Call, Return,
         mapVars, bondVars, uuidVars, scanVars, InPair, InRead, InDiscovery, Outcomes
<1>11. DiscoveryWillStop' /\ EndlessIsWanted'
  BY DEF IInv, TypeOK, ThreadTypes, DiscoveryWillStop, EndlessIsWanted, PairDevice, Call,
         Return, mapVars, bondVars, uuidVars, scanVars, InPair, InRead, InDiscovery,
         Outcomes
<1> QED BY <1>5, <1>6, <1>7, <1>8, <1>9, <1>10, <1>11 DEF IInv

LEMMA ReadUUIDsStep ==
  ASSUME IInv, NEW t \in Threads, NEW a \in Addresses, ReadUUIDs(t, a)
  PROVE  IInv'
<1>1. broadcasts' \in Seq(Broadcasts) /\ (\A x : Announced(x) => Announced(x)')
  BY DEF IInv, TypeOK, Announced, ReadUUIDs, Call
<1>2. ThreadTypes'
  BY BluetoothAssumption
     DEF IInv, TypeOK, ThreadTypes, ReadUUIDs, Call, mapVars, bondVars, uuidVars, scanVars,
         historyVars, InPair, InRead, InDiscovery, Outcomes
<1>3. SetTypes'
  BY DEF IInv, TypeOK, SetTypes, ThreadTypes, ReadUUIDs, Call, mapVars, bondVars, uuidVars,
         scanVars, historyVars, InPair, InRead, InDiscovery, Outcomes
<1>4. FlagTypes'
  BY DEF IInv, TypeOK, FlagTypes, ReadUUIDs, Call, mapVars, bondVars, uuidVars, scanVars,
         historyVars
<1>5. TypeOK'
  BY <1>1, <1>2, <1>3, <1>4, BluetoothAssumption
     DEF IInv, TypeOK, ReadUUIDs, Call, mapVars, bondVars, uuidVars, scanVars, historyVars
<1>6. EntriesHaveOwner'
  BY DEF IInv, TypeOK, ThreadTypes, SetTypes, EntriesHaveOwner, ReadUUIDs, Call, mapVars,
         bondVars, uuidVars, scanVars, historyVars, InPair, InRead, InDiscovery, Outcomes
<1>7. PairerWillBeWoken'
  BY <1>1
     DEF IInv, TypeOK, ThreadTypes, PairerWillBeWoken, SameDevice, OverlapsSpoil,
         ReadUUIDs, Call, mapVars,
         bondVars, uuidVars, scanVars, historyVars, InPair, InRead, InDiscovery, Outcomes
<1>8. OverlapsSpoil'
  BY DEF IInv, TypeOK, ThreadTypes, OverlapsSpoil, SameDevice, ReadUUIDs, Call, mapVars,
         bondVars,
         uuidVars, scanVars, historyVars, InPair, InRead, InDiscovery, Outcomes
<1>9. HasteSpoils'
  BY DEF IInv, TypeOK, ThreadTypes, HasteSpoils, OverlapsSpoil, SameDevice, ReadUUIDs,
         Call, mapVars,
         bondVars, uuidVars, scanVars, historyVars, InPair, InRead, InDiscovery, Outcomes
<1>10. HeardIsFetched'
  BY DEF IInv, TypeOK, ThreadTypes, SetTypes, HeardIsFetched, ReadUUIDs, Call, mapVars,
         bondVars, uuidVars, scanVars, historyVars, InPair, InRead, InDiscovery, Outcomes
<1>11. DiscoveryWillStop' /\ EndlessIsWanted'
  BY DEF IInv, TypeOK, ThreadTypes, DiscoveryWillStop, EndlessIsWanted, ReadUUIDs, Call,
         mapVars, bondVars, uuidVars, scanVars, historyVars, InPair, InRead, InDiscovery, Outcomes
<1> QED BY <1>5, <1>6, <1>7, <1>8, <1>9, <1>10, <1>11 DEF IInv

LEMMA PairRoundStep ==
  ASSUME IInv, NEW t \in Threads, PairRound(t)
  PROVE  IInv'
<1>1. broadcasts' \in Seq(Broadcasts) /\ (\A x : Announced(x) => Announced(x)')
  BY DEF IInv, TypeOK, Announced, PairRound, Begin, Finish, CreateBond, LeavePairing, Goto,
         Return
<1>2. ThreadTypes'
  <2>1. address[t] \in Addresses
    BY DEF IInv, TypeOK, ThreadTypes, PairRound, InPair
  <2> QED BY <2>1, GotoTypes, ReturnTypes DEF IInv, TypeOK, PairRound, Begin, Finish,
             InPair,
             Outcomes
<1>3. SetTypes'
  <2>1. address[t] \in Addresses
    BY DEF IInv, TypeOK, ThreadTypes, PairRound, InPair
  <2> QED BY <2>1 DEF IInv, TypeOK, SetTypes, PairRound, Begin, Finish, CreateBond,
                  LeavePairing, uuidVars, scanVars
<1>4. FlagTypes'
  BY DEF IInv, TypeOK, FlagTypes, PairRound, Begin, Finish, CreateBond, LeavePairing, Goto,
         Return, uuidVars,
         scanVars
<1>5. TypeOK'
  BY <1>1, <1>2, <1>3, <1>4, BluetoothAssumption
     DEF IInv, TypeOK, PairRound, Begin, Finish, CreateBond, LeavePairing, Goto, Return,
         uuidVars, scanVars
<1>6. EntriesHaveOwner'
  <2>1. CASE Goto(t, "pairWaiting")
    BY <2>1, WaiterOwns
       DEF IInv, TypeOK, ThreadTypes, PairRound, Begin, Finish, Goto, Return, InPair,
           InRead,
           LeavePairing
  <2>2. CASE LeavePairing(address[t]) /\ (Return(t, "done") \/ Return(t, "cancelled"))
    BY <2>2, OwnersStay
       DEF IInv, TypeOK, ThreadTypes, PairRound, Return, LeavePairing
  <2> QED BY <2>1, <2>2 DEF PairRound, Begin, Finish
<1>7. PairerWillBeWoken'
  BY <1>1, BluetoothAssumption
     DEF IInv, TypeOK, ThreadTypes, PairerWillBeWoken, SameDevice, OverlapsSpoil,
         PairRound, Begin, Finish, CreateBond,
         LeavePairing, Goto, Return, uuidVars, scanVars, InPair, InRead, InDiscovery,
         Outcomes
<1>8. OverlapsSpoil'
  BY DEF IInv, TypeOK, ThreadTypes, OverlapsSpoil, SameDevice, PairRound, Begin, Finish,
         CreateBond, LeavePairing, Goto,
         Return, uuidVars, scanVars, InPair, InRead, InDiscovery, Outcomes
<1>9. HasteSpoils'
  BY BluetoothAssumption
     DEF IInv, TypeOK, ThreadTypes, HasteSpoils, OverlapsSpoil, SameDevice, PairRound,
         Begin, Finish, CreateBond,
         LeavePairing, Goto, Return, uuidVars, scanVars, InPair, InRead, InDiscovery,
         Outcomes
<1>10. HeardIsFetched'
  BY DEF IInv, TypeOK, ThreadTypes, SetTypes, HeardIsFetched, PairRound, Begin, Finish,
         CreateBond,
         LeavePairing, Goto, Return, uuidVars, scanVars, InPair, InRead, InDiscovery,
         Outcomes
<1>11. DiscoveryWillStop' /\ EndlessIsWanted'
  BY DEF IInv, TypeOK, ThreadTypes, DiscoveryWillStop, EndlessIsWanted, PairRound, Begin,
         Finish, CreateBond,
         LeavePairing, Goto, Return, uuidVars, scanVars, InPair, InRead, InDiscovery,
         Outcomes
<1> QED BY <1>5, <1>6, <1>7, <1>8, <1>9, <1>10, <1>11 DEF IInv

LEMMA ReadRoundStep ==
  ASSUME IInv, NEW t \in Threads, ReadRound(t)
  PROVE  IInv'
<1>1. broadcasts' \in Seq(Broadcasts) /\ (\A x : Announced(x) => Announced(x)')
  BY DEF IInv, TypeOK, Announced, ReadRound, FetchedOrTimeout, WaitOrTimeout, LeaveReading,
         Goto, Return
<1>2. ThreadTypes'
  <2>1. address[t] \in Addresses
    BY DEF IInv, TypeOK, ThreadTypes, ReadRound, InRead
  <2> QED BY <2>1, GotoTypes, ReturnTypes
          DEF IInv, TypeOK, ReadRound, WaitOrTimeout, FetchedOrTimeout, InRead, Outcomes
<1>3. SetTypes'
  BY BluetoothAssumption
     DEF IInv, TypeOK, SetTypes, ThreadTypes, ReadRound, FetchedOrTimeout, WaitOrTimeout,
         LeaveReading, Goto, Return, bondVars, scanVars, InPair, InRead, InDiscovery,
         Outcomes
<1>4. FlagTypes'
  BY DEF IInv, TypeOK, FlagTypes, ReadRound, FetchedOrTimeout, WaitOrTimeout, LeaveReading,
         Goto, Return, bondVars, scanVars
<1>5. TypeOK'
  BY <1>1, <1>2, <1>3, <1>4, BluetoothAssumption
     DEF IInv, TypeOK, ReadRound, FetchedOrTimeout, WaitOrTimeout, LeaveReading, Goto,
         Return,
         bondVars, scanVars
<1>6. EntriesHaveOwner'
  <2>1. CASE Goto(t, "readWaiting") /\ fetching' = fetching \cup {address[t]}
    BY <2>1, WaiterOwns DEF IInv, TypeOK, ThreadTypes, ReadRound, Goto, InRead
  <2>2. CASE LeaveReading(t) /\ (Return(t, "done") \/ Return(t, "timeout"))
    BY <2>2, OwnersStay DEF IInv, TypeOK, ThreadTypes, ReadRound, Return, LeaveReading
  <2> QED BY <2>1, <2>2 DEF ReadRound, WaitOrTimeout, FetchedOrTimeout
<1>7. PairerWillBeWoken'
  BY <1>1
     DEF IInv, TypeOK, ThreadTypes, PairerWillBeWoken, SameDevice, OverlapsSpoil, ReadRound,
         FetchedOrTimeout, WaitOrTimeout, LeaveReading, Goto, Return, bondVars, scanVars,
         InPair, InRead, InDiscovery, Outcomes
<1>8. OverlapsSpoil'
  <2>1. /\ \A u \in Threads : pc'[u] \in InPair => pc[u] = pc'[u] /\ address'[u] = address[u]
        /\ UNCHANGED spoiled
    BY DEF IInv, TypeOK, ThreadTypes, ReadRound, FetchedOrTimeout, WaitOrTimeout, Goto,
           Return,
           InPair, InRead
  <2> QED BY <2>1 DEF IInv, OverlapsSpoil, SameDevice
<1>9. HasteSpoils'
  BY DEF IInv, TypeOK, ThreadTypes, HasteSpoils, OverlapsSpoil, SameDevice, ReadRound,
         FetchedOrTimeout,
         WaitOrTimeout, LeaveReading, Goto, Return, bondVars, scanVars, InPair, InRead,
         Outcomes
<1>10. HeardIsFetched'
  BY DEF IInv, TypeOK, ThreadTypes, SetTypes, HeardIsFetched, ReadRound, FetchedOrTimeout,
         WaitOrTimeout, LeaveReading, Goto, Return, bondVars, scanVars, InPair, InRead,
         Outcomes
<1>11. DiscoveryWillStop' /\ EndlessIsWanted'
  BY DEF IInv, TypeOK, ThreadTypes, DiscoveryWillStop, EndlessIsWanted, ReadRound,
         FetchedOrTimeout, WaitOrTimeout, LeaveReading, Goto, Return, bondVars, scanVars,
         InPair, InRead, InDiscovery, Outcomes
<1> QED BY <1>5, <1>6, <1>7, <1>8, <1>9, <1>10, <1>11 DEF IInv

LEMMA WaitEndsStep ==
  ASSUME IInv, NEW t \in Threads, WaitEnds(t)
  PROVE  IInv'
<1>1. broadcasts' \in Seq(Broadcasts) /\ (\A x : Announced(x) => Announced(x)')
  BY DEF IInv, TypeOK, Announced, WaitEnds, Goto
<1>2. ThreadTypes'
  BY BluetoothAssumption
     DEF IInv, TypeOK, ThreadTypes, WaitEnds, Goto, mapVars, bondVars, uuidVars, scanVars,
         historyVars, InPair, InRead, InDiscovery, Outcomes
<1>3. SetTypes'
  BY DEF IInv, TypeOK, SetTypes, ThreadTypes, WaitEnds, Goto, mapVars, bondVars, uuidVars,
         scanVars, historyVars, InPair, InRead, InDiscovery, Outcomes
<1>4. FlagTypes'
  BY DEF IInv, TypeOK, FlagTypes, WaitEnds, Goto, mapVars, bondVars, uuidVars, scanVars,
         historyVars
<1>5. TypeOK'
  BY <1>1, <1>2, <1>3, <1>4, BluetoothAssumption
     DEF IInv, TypeOK, WaitEnds, Goto, mapVars, bondVars, uuidVars, scanVars, historyVars
<1>6. EntriesHaveOwner'
  BY DEF IInv, TypeOK, ThreadTypes, SetTypes, EntriesHaveOwner, WaitEnds, Goto, mapVars,
         bondVars, uuidVars, scanVars, historyVars, InPair, InRead, InDiscovery, Outcomes
<1>7. PairerWillBeWoken'
  BY <1>1
     DEF IInv, TypeOK, ThreadTypes, PairerWillBeWoken, SameDevice, OverlapsSpoil, WaitEnds,
         Goto, mapVars,
         bondVars, uuidVars, scanVars, historyVars, InPair, InRead, InDiscovery, Outcomes
<1>8. OverlapsSpoil'
  BY DEF IInv, TypeOK, ThreadTypes, OverlapsSpoil, SameDevice, WaitEnds, Goto, mapVars,
         bondVars, uuidVars,
         scanVars, historyVars, InPair, InRead, InDiscovery, Outcomes
<1>9. HasteSpoils'
  BY DEF IInv, TypeOK, ThreadTypes, HasteSpoils, OverlapsSpoil, SameDevice, WaitEnds, Goto,
         mapVars,
         bondVars, uuidVars, scanVars, historyVars, InPair, InRead, InDiscovery, Outcomes
<1>10. HeardIsFetched'
  BY DEF IInv, TypeOK, ThreadTypes, SetTypes, HeardIsFetched, WaitEnds, Goto, mapVars,
         bondVars, uuidVars, scanVars, historyVars, InPair, InRead, InDiscovery, Outcomes
<1>11. DiscoveryWillStop' /\ EndlessIsWanted'
  BY DEF IInv, TypeOK, ThreadTypes, DiscoveryWillStop, EndlessIsWanted, WaitEnds, Goto,
         mapVars, bondVars, uuidVars, scanVars, historyVars, InPair, InRead, InDiscovery, Outcomes
<1> QED BY <1>5, <1>6, <1>7, <1>8, <1>9, <1>10, <1>11 DEF IInv

(* What the discovery does, beside all calls that pair or read. *)
LEMMA Aside ==
  ASSUME IInv, ThreadTypes', FlagTypes', timers' \in SUBSET Threads, events' \in 0 .. MaxEvents,
         UNCHANGED <<mapVars, bondVars, uuidVars, broadcasts, historyVars>>,
         \A u \in Threads : \/ pc'[u] = pc[u] /\ address'[u] = address[u]
                            \/ /\ pc[u] \notin InPair \cup InRead
                               /\ pc'[u] \notin InPair \cup InRead,
         DiscoveryWillStop', EndlessIsWanted'
  PROVE  IInv'
<1>1. TypeOK'
  BY DEF IInv, TypeOK, SetTypes, mapVars, bondVars, uuidVars, historyVars
<1>2. EntriesHaveOwner'
  <2>1. ASSUME NEW a \in pairing'
        PROVE  \E u \in Threads : pc'[u] \in {"pairWaiting", "pairWoken"} /\ address'[u] = a
    <3>1. PICK u \in Threads : pc[u] \in {"pairWaiting", "pairWoken"} /\ address[u] = a
      BY <2>1 DEF IInv, EntriesHaveOwner, mapVars
    <3> QED BY <3>1 DEF InPair
  <2>2. ASSUME NEW a \in fetching'
        PROVE  \E u \in Threads : pc'[u] \in {"readWaiting", "readWoken"} /\ address'[u] = a
    <3>1. PICK u \in Threads : pc[u] \in {"readWaiting", "readWoken"} /\ address[u] = a
      BY <2>2 DEF IInv, EntriesHaveOwner, mapVars
    <3> QED BY <3>1 DEF InRead
  <2> QED BY <2>1, <2>2 DEF EntriesHaveOwner
<1>3. PairerWillBeWoken'
  BY DEF IInv, PairerWillBeWoken, Announced, InPair, mapVars, bondVars,
         historyVars
<1>4. OverlapsSpoil' /\ HasteSpoils'
  BY DEF IInv, OverlapsSpoil, HasteSpoils, InPair, bondVars, historyVars
<1>5. HeardIsFetched'
  BY DEF IInv, TypeOK, SetTypes, HeardIsFetched, mapVars, historyVars
<1> QED BY <1>1, <1>2, <1>3, <1>4, <1>5 DEF IInv

LEMMA StartDiscoveryStep ==
  ASSUME IInv, NEW t \in Threads, StartDiscovery(t)
  PROVE  IInv'
<1>1. ThreadTypes'
  BY GotoTypes DEF IInv, TypeOK, StartDiscovery, InPair, InRead, InDiscovery
<1>2. \A u \in Threads \ {t} : pc'[u] = pc[u] /\ address'[u] = address[u]
  BY DEF IInv, TypeOK, ThreadTypes, StartDiscovery, Goto
<1>3. pc[t] = "idle" /\ pc'[t] = "start"
  BY DEF IInv, TypeOK, ThreadTypes, StartDiscovery, Goto
<1>4. timers' \in SUBSET Threads /\ FlagTypes' /\ DiscoveryWillStop' /\ EndlessIsWanted'
  BY DEF IInv, TypeOK, SetTypes, FlagTypes, DiscoveryWillStop, EndlessIsWanted,
         StartDiscovery
<1> QED BY <1>1, <1>2, <1>3, <1>4, Aside DEF StartDiscovery, IInv, TypeOK, InPair, InRead

LEMMA TryDiscoveryStep ==
  ASSUME IInv, NEW t \in Threads, TryDiscovery(t)
  PROVE  IInv'
<1>1. ThreadTypes'
  BY GotoTypes, ReturnTypes
     DEF IInv, TypeOK, TryDiscovery, InPair, InRead, InDiscovery, Outcomes
<1>2. \A u \in Threads \ {t} : pc'[u] = pc[u] /\ address'[u] = address[u]
  BY DEF IInv, TypeOK, ThreadTypes, TryDiscovery, Goto, Return
<1>3. pc[t] \in {"start", "startAgain"} /\ pc'[t] \in {"started", "done", "asking"}
  BY DEF IInv, TypeOK, ThreadTypes, TryDiscovery, Goto, Return
<1>4. timers' \in SUBSET Threads /\ FlagTypes' /\ DiscoveryWillStop' /\ EndlessIsWanted'
  BY DEF IInv, TypeOK, SetTypes, FlagTypes, DiscoveryWillStop, EndlessIsWanted,
         TryDiscovery,
         scanVars
<1> QED BY <1>1, <1>2, <1>3, <1>4, Aside DEF TryDiscovery, IInv, TypeOK, InPair, InRead

LEMMA AfterAskingStep ==
  ASSUME IInv, NEW t \in Threads, AfterAsking(t)
  PROVE  IInv'
<1>1. ThreadTypes'
  BY GotoTypes, ReturnTypes
     DEF IInv, TypeOK, AfterAsking, InPair, InRead, InDiscovery, Outcomes
<1>2. \A u \in Threads \ {t} : pc'[u] = pc[u] /\ address'[u] = address[u]
  BY DEF IInv, TypeOK, ThreadTypes, AfterAsking, Goto, Return
<1>3. pc[t] = "asking" /\ pc'[t] \in {"startAgain", "done"}
  BY DEF IInv, TypeOK, ThreadTypes, AfterAsking, Goto, Return
<1>4. timers' \in SUBSET Threads /\ FlagTypes' /\ DiscoveryWillStop' /\ EndlessIsWanted'
  BY DEF IInv, TypeOK, SetTypes, FlagTypes, DiscoveryWillStop, EndlessIsWanted, AfterAsking,
         scanVars
<1> QED BY <1>1, <1>2, <1>3, <1>4, Aside DEF AfterAsking, IInv, TypeOK, InPair, InRead

(* The only step that can lose the timer, and then it says so. *)
LEMMA SetDiscoveringStep ==
  ASSUME IInv, NEW t \in Threads, SetDiscovering(t)
  PROVE  IInv'
<1>1. ThreadTypes'
  BY ReturnTypes DEF IInv, TypeOK, SetDiscovering, Outcomes
<1>2. \A u \in Threads \ {t} : pc'[u] = pc[u] /\ address'[u] = address[u]
  BY DEF IInv, TypeOK, ThreadTypes, SetDiscovering, Return
<1>3. pc[t] = "started" /\ pc'[t] = "done"
  BY DEF IInv, TypeOK, ThreadTypes, SetDiscovering, Return
<1>4. timers' \in SUBSET Threads /\ FlagTypes' /\ EndlessIsWanted'
  BY DEF IInv, TypeOK, SetTypes, FlagTypes, EndlessIsWanted, SetDiscovering
<1>5. DiscoveryWillStop'
  BY DEF DiscoveryWillStop, SetDiscovering
<1> QED BY <1>1, <1>2, <1>3, <1>4, <1>5, Aside
        DEF SetDiscovering, IInv, TypeOK, InPair, InRead

LEMMA StopsStep ==
  ASSUME IInv, (\E t \in Threads : TimerFires(t)) \/ ScriptStops
  PROVE  IInv'
<1>1. /\ StopDiscovery /\ timers' \in SUBSET Threads /\ events' \in 0 .. MaxEvents
      /\ UNCHANGED <<mapVars, callVars, bondVars, uuidVars, on, broadcasts, historyVars>>
  BY BluetoothAssumption DEF IInv, TypeOK, SetTypes, TimerFires, ScriptStops
<1>2. ThreadTypes' /\ FlagTypes'
  BY <1>1 DEF IInv, TypeOK, ThreadTypes, FlagTypes, StopDiscovery, callVars
<1>3. DiscoveryWillStop' /\ EndlessIsWanted'
  BY <1>1 DEF StopDiscovery, DiscoveryWillStop, EndlessIsWanted
<1> QED BY <1>1, <1>2, <1>3, Aside DEF callVars

LEMMA TickStep ==
  ASSUME IInv, Tick
  PROVE  IInv'
<1>1. broadcasts' \in Seq(Broadcasts) /\ (\A x : Announced(x) => Announced(x)')
  BY DEF IInv, TypeOK, Announced, Tick
<1>2. ThreadTypes'
  BY BluetoothAssumption
     DEF IInv, TypeOK, ThreadTypes, Tick, mapVars, bondVars, uuidVars, scanVars,
         historyVars,
         InPair, InRead, InDiscovery, Outcomes
<1>3. SetTypes'
  BY DEF IInv, TypeOK, SetTypes, Tick, mapVars, uuidVars, bondVars, scanVars,
         historyVars
<1>4. FlagTypes'
  BY DEF IInv, TypeOK, FlagTypes, Tick, mapVars, bondVars, uuidVars, scanVars, historyVars
<1>5. TypeOK'
  BY <1>1, <1>2, <1>3, <1>4, BluetoothAssumption
     DEF IInv, TypeOK, Tick, mapVars, bondVars, uuidVars, scanVars, historyVars
<1>6. EntriesHaveOwner'
  BY DEF IInv, TypeOK, ThreadTypes, SetTypes, EntriesHaveOwner, Tick, mapVars, bondVars,
         uuidVars, scanVars, historyVars, InPair, InRead, InDiscovery, Outcomes
<1>7. PairerWillBeWoken'
  BY <1>1
     DEF IInv, TypeOK, ThreadTypes, PairerWillBeWoken, SameDevice, OverlapsSpoil, Tick,
         mapVars, bondVars,
         uuidVars, scanVars, historyVars, InPair, InRead, InDiscovery, Outcomes
<1>8. OverlapsSpoil'
  BY DEF IInv, TypeOK, ThreadTypes, OverlapsSpoil, SameDevice, Tick, mapVars, bondVars,
         uuidVars, scanVars,
         historyVars, InPair, InRead, InDiscovery, Outcomes
<1>9. HasteSpoils'
  BY DEF IInv, TypeOK, ThreadTypes, HasteSpoils, OverlapsSpoil, SameDevice, Tick, mapVars,
         bondVars,
         uuidVars, scanVars, historyVars, InPair, InRead, InDiscovery, Outcomes
<1>10. HeardIsFetched'
  BY DEF IInv, TypeOK, ThreadTypes, SetTypes, HeardIsFetched, Tick, mapVars, bondVars,
         uuidVars, scanVars, historyVars, InPair, InRead, InDiscovery, Outcomes
<1>11. DiscoveryWillStop' /\ EndlessIsWanted'
  BY DEF IInv, TypeOK, ThreadTypes, DiscoveryWillStop, EndlessIsWanted, Tick, mapVars,
         bondVars, uuidVars, scanVars, historyVars, InPair, InRead, InDiscovery, Outcomes
<1> QED BY <1>5, <1>6, <1>7, <1>8, <1>9, <1>10, <1>11 DEF IInv

LEMMA BondingBeginsStep ==
  ASSUME IInv, NEW d \in Devices, BondingBegins(d)
  PROVE  IInv'
<1>1. /\ broadcasts' \in Seq(Broadcasts) /\ (\A x : Announced(x) => Announced(x)')
      /\ Announced(Changed(d))'
  BY AnnounceKeeps DEF IInv, TypeOK, BondingBegins, Broadcasts, Changed, Uuids
<1>2. ThreadTypes'
  BY BluetoothAssumption
     DEF IInv, TypeOK, ThreadTypes, BondingBegins, mapVars, callVars, uuidVars, scanVars,
         historyVars, InPair, InRead
<1>3. SetTypes'
  BY DEF IInv, TypeOK, SetTypes, ThreadTypes, BondingBegins, mapVars, callVars, uuidVars,
         scanVars, historyVars, InPair, InRead
<1>4. FlagTypes'
  BY DEF IInv, TypeOK, FlagTypes, BondingBegins, mapVars, callVars, uuidVars, scanVars,
         historyVars
<1>5. TypeOK'
  BY <1>1, <1>2, <1>3, <1>4, BluetoothAssumption
     DEF IInv, TypeOK, BondingBegins, mapVars, callVars, uuidVars, scanVars, historyVars
<1>6. EntriesHaveOwner'
  BY DEF IInv, TypeOK, ThreadTypes, SetTypes, EntriesHaveOwner, BondingBegins, mapVars,
         callVars, uuidVars, scanVars, historyVars, InPair, InRead
<1>7. PairerWillBeWoken'
  BY <1>1
     DEF IInv, TypeOK, ThreadTypes, PairerWillBeWoken, SameDevice, OverlapsSpoil,
         BondingBegins, mapVars,
         callVars, uuidVars, scanVars, historyVars, InPair, InRead
<1>8. OverlapsSpoil'
  BY DEF IInv, TypeOK, ThreadTypes, OverlapsSpoil, SameDevice, BondingBegins, mapVars,
         callVars, uuidVars,
         scanVars, historyVars, InPair, InRead
<1>9. HasteSpoils'
  BY DEF IInv, TypeOK, ThreadTypes, HasteSpoils, OverlapsSpoil, SameDevice, BondingBegins,
         mapVars,
         callVars, uuidVars, scanVars, historyVars, InPair, InRead
<1>10. HeardIsFetched'
  BY DEF IInv, TypeOK, ThreadTypes, SetTypes, HeardIsFetched, BondingBegins, mapVars,
         callVars,
         uuidVars, scanVars, historyVars, InPair, InRead
<1>11. DiscoveryWillStop' /\ EndlessIsWanted'
  BY DEF IInv, TypeOK, ThreadTypes, DiscoveryWillStop, EndlessIsWanted, BondingBegins,
         mapVars,
         callVars, uuidVars, scanVars, historyVars, InPair, InRead
<1> QED BY <1>5, <1>6, <1>7, <1>8, <1>9, <1>10, <1>11 DEF IInv

LEMMA BondingEndsStep ==
  ASSUME IInv, NEW d \in Devices, BondingEnds(d)
  PROVE  IInv'
<1>1. /\ broadcasts' \in Seq(Broadcasts) /\ (\A x : Announced(x) => Announced(x)')
      /\ Announced(Changed(d))'
  BY AnnounceKeeps DEF IInv, TypeOK, BondingEnds, Broadcasts, Changed, Uuids
<1>2. ThreadTypes'
  BY BluetoothAssumption
     DEF IInv, TypeOK, ThreadTypes, BondingEnds, mapVars, callVars, uuidVars, scanVars,
         historyVars, InPair, InRead
<1>3. SetTypes'
  BY DEF IInv, TypeOK, SetTypes, ThreadTypes, BondingEnds, mapVars, callVars, uuidVars,
         scanVars, historyVars, InPair, InRead
<1>4. FlagTypes'
  BY DEF IInv, TypeOK, FlagTypes, BondingEnds, mapVars, callVars, uuidVars, scanVars,
         historyVars
<1>5. TypeOK'
  BY <1>1, <1>2, <1>3, <1>4, BluetoothAssumption
     DEF IInv, TypeOK, BondingEnds, mapVars, callVars, uuidVars, scanVars, historyVars
<1>6. EntriesHaveOwner'
  BY DEF IInv, TypeOK, ThreadTypes, SetTypes, EntriesHaveOwner, BondingEnds, mapVars,
         callVars,
         uuidVars, scanVars, historyVars, InPair, InRead
<1>7. PairerWillBeWoken'
  BY <1>1
     DEF IInv, TypeOK, ThreadTypes, PairerWillBeWoken, SameDevice, OverlapsSpoil,
         BondingEnds, mapVars,
         callVars, uuidVars, scanVars, historyVars, InPair, InRead
<1>8. OverlapsSpoil'
  BY DEF IInv, TypeOK, ThreadTypes, OverlapsSpoil, SameDevice, BondingEnds, mapVars,
         callVars, uuidVars,
         scanVars, historyVars, InPair, InRead
<1>9. HasteSpoils'
  BY DEF IInv, TypeOK, ThreadTypes, HasteSpoils, OverlapsSpoil, SameDevice, BondingEnds,
         mapVars, callVars,
         uuidVars, scanVars, historyVars, InPair, InRead
<1>10. HeardIsFetched'
  BY DEF IInv, TypeOK, ThreadTypes, SetTypes, HeardIsFetched, BondingEnds, mapVars,
         callVars,
         uuidVars, scanVars, historyVars, InPair, InRead
<1>11. DiscoveryWillStop' /\ EndlessIsWanted'
  BY DEF IInv, TypeOK, ThreadTypes, DiscoveryWillStop, EndlessIsWanted, BondingEnds,
         mapVars,
         callVars, uuidVars, scanVars, historyVars, InPair, InRead
<1> QED BY <1>5, <1>6, <1>7, <1>8, <1>9, <1>10, <1>11 DEF IInv

LEMMA ProbeEndsStep ==
  ASSUME IInv, NEW d \in Devices, ProbeEnds(d)
  PROVE  IInv'
<1>1. broadcasts' \in Seq(Broadcasts) /\ (\A x : Announced(x) => Announced(x)')
  <2>1. CASE UNCHANGED broadcasts
    BY <2>1 DEF IInv, TypeOK, Announced
  <2>2. ASSUME NEW b \in Broadcasts, Announce(b)
        PROVE  broadcasts' \in Seq(Broadcasts) /\ (\A x : Announced(x) => Announced(x)')
    BY <2>2, AnnounceKeeps DEF IInv, TypeOK
  <2> QED BY <2>1, <2>2 DEF ProbeEnds, Broadcasts, Changed, Uuids
<1>2. ThreadTypes'
  BY BluetoothAssumption
     DEF IInv, TypeOK, ThreadTypes, ProbeEnds, mapVars, callVars, bondVars, scanVars,
         historyVars, InPair, InRead
<1>3. SetTypes'
  BY DEF IInv, TypeOK, SetTypes, ThreadTypes, ProbeEnds, mapVars, callVars, bondVars,
         scanVars,
         historyVars, InPair, InRead
<1>4. FlagTypes'
  BY DEF IInv, TypeOK, FlagTypes, ProbeEnds, mapVars, callVars, bondVars, scanVars,
         historyVars
<1>5. TypeOK'
  BY <1>1, <1>2, <1>3, <1>4, BluetoothAssumption
     DEF IInv, TypeOK, ProbeEnds, mapVars, callVars, bondVars, scanVars, historyVars
<1>6. EntriesHaveOwner'
  BY DEF IInv, TypeOK, ThreadTypes, SetTypes, EntriesHaveOwner, ProbeEnds, mapVars,
         callVars,
         bondVars, scanVars, historyVars, InPair, InRead
<1>7. PairerWillBeWoken'
  BY <1>1
     DEF IInv, TypeOK, ThreadTypes, PairerWillBeWoken, SameDevice, OverlapsSpoil,
         ProbeEnds, mapVars,
         callVars, bondVars, scanVars, historyVars, InPair, InRead
<1>8. OverlapsSpoil'
  BY DEF IInv, TypeOK, ThreadTypes, OverlapsSpoil, SameDevice, ProbeEnds, mapVars,
         callVars, bondVars,
         scanVars, historyVars, InPair, InRead
<1>9. HasteSpoils'
  BY DEF IInv, TypeOK, ThreadTypes, HasteSpoils, OverlapsSpoil, SameDevice, ProbeEnds,
         mapVars, callVars,
         bondVars, scanVars, historyVars, InPair, InRead
<1>10. HeardIsFetched'
  BY DEF IInv, TypeOK, ThreadTypes, SetTypes, HeardIsFetched, ProbeEnds, mapVars, callVars,
         bondVars, scanVars, historyVars, InPair, InRead
<1>11. DiscoveryWillStop' /\ EndlessIsWanted'
  BY DEF IInv, TypeOK, ThreadTypes, DiscoveryWillStop, EndlessIsWanted, ProbeEnds, mapVars,
         callVars, bondVars, scanVars, historyVars, InPair, InRead
<1> QED BY <1>5, <1>6, <1>7, <1>8, <1>9, <1>10, <1>11 DEF IInv

LEMMA EnvironmentStep ==
  ASSUME IInv, Environment
  PROVE  IInv'
<1>1. broadcasts' \in Seq(Broadcasts) /\ (\A x : Announced(x) => Announced(x)')
  <2>1. CASE UNCHANGED broadcasts
    BY <2>1 DEF IInv, TypeOK, Announced
  <2>2. ASSUME NEW b \in Broadcasts, Announce(b)
        PROVE  broadcasts' \in Seq(Broadcasts) /\ (\A x : Announced(x) => Announced(x)')
    BY <2>2, AnnounceKeeps DEF IInv, TypeOK
  <2> QED BY <2>1, <2>2 DEF Environment, Broadcasts, Changed, Uuids
<1>2. ThreadTypes'
  BY BluetoothAssumption
     DEF IInv, TypeOK, ThreadTypes, Environment, mapVars, callVars, historyVars, InPair,
         InRead
<1>3. SetTypes'
  BY DEF IInv, TypeOK, SetTypes, ThreadTypes, Environment, mapVars, callVars, scanVars,
         historyVars,
         InPair, InRead
<1>4. FlagTypes'
  BY DEF IInv, TypeOK, FlagTypes, Environment, mapVars, callVars, scanVars, historyVars
<1>5. TypeOK'
  BY <1>1, <1>2, <1>3, <1>4, BluetoothAssumption
     DEF IInv, TypeOK, Environment, mapVars, callVars, historyVars
<1>6. EntriesHaveOwner'
  BY DEF IInv, TypeOK, ThreadTypes, SetTypes, EntriesHaveOwner, Environment, mapVars,
         callVars,
         historyVars, InPair, InRead
<1>7. PairerWillBeWoken'
  BY <1>1
     DEF IInv, TypeOK, ThreadTypes, PairerWillBeWoken, SameDevice, OverlapsSpoil,
         Environment, mapVars,
         callVars, historyVars, InPair, InRead
<1>8. OverlapsSpoil'
  BY DEF IInv, TypeOK, ThreadTypes, OverlapsSpoil, SameDevice, Environment, mapVars,
         callVars, historyVars,
         InPair, InRead
<1>9. HasteSpoils'
  BY BluetoothAssumption
     DEF IInv, TypeOK, ThreadTypes, HasteSpoils, OverlapsSpoil, SameDevice, Environment,
         mapVars, callVars,
         historyVars, InPair, InRead
<1>10. HeardIsFetched'
  BY DEF IInv, TypeOK, ThreadTypes, SetTypes, HeardIsFetched, Environment, mapVars,
         callVars,
         historyVars, InPair, InRead
<1>11. DiscoveryWillStop' /\ EndlessIsWanted'
  BY DEF IInv, TypeOK, ThreadTypes, DiscoveryWillStop, EndlessIsWanted, Environment,
         mapVars,
         callVars, scanVars, historyVars, InPair, InRead
<1> QED BY <1>5, <1>6, <1>7, <1>8, <1>9, <1>10, <1>11 DEF IInv

LEMMA ReceiveStep ==
  ASSUME IInv, Receive
  PROVE  IInv'
<1>1. /\ broadcasts \in Seq(Broadcasts)
      /\ broadcasts' \in Seq(Broadcasts)
      /\ \A x : Announced(x) /\ x # Head(broadcasts) => Announced(x)'
  BY ReceiveKeeps DEF IInv, TypeOK, Receive
<1>2. /\ address' = address /\ elapsed' = elapsed /\ bond' = bond /\ named' = named
      /\ pairing' = pairing /\ fetching' = fetching /\ robbed' = robbed
  BY DEF Receive, bondVars
<1>3. ASSUME NEW d \in Devices, Head(broadcasts) = Changed(d), OnDeviceChanged(d)
      PROVE  IInv'
  <2>1. /\ \A t \in Threads : \/ pc'[t] = pc[t]
                              \/ pc[t] = "pairWaiting" /\ pc'[t] = "pairWoken"
                              \/ pc[t] = "readWaiting" /\ pc'[t] = "readWoken"
        /\ pc' \in [Threads -> {"idle"} \cup Outcomes \cup InPair \cup InRead \cup InDiscovery]
        /\ spoiled \subseteq spoiled' /\ spoiled' \subseteq Addresses
    BY <1>3, BluetoothAssumption
       DEF OnDeviceChanged, NotifyAll, IInv, TypeOK, ThreadTypes, SetTypes, InPair, InRead
  <2>2. TypeOK'
    BY <1>1, <1>2, <1>3, <2>1
       DEF IInv, TypeOK, ThreadTypes, SetTypes, FlagTypes, InPair, InRead, Receive,
           uuidVars, bondVars,
           scanVars, OnDeviceChanged
  <2>3. EntriesHaveOwner'
    BY <1>2, <2>1 DEF IInv, EntriesHaveOwner
  <2>4. PairerWillBeWoken'
    <3> SUFFICES ASSUME NEW t \in Threads, pc'[t] = "pairWaiting",
                        NEW x, x = address[t], x \notin spoiled'
                 PROVE  /\ x \in pairing
                        /\ \/ x \notin Devices
                           \/ bond[x] \in {"asked", "bonding"} \/ Announced(Changed(x))'
      BY <1>2, <2>2 DEF PairerWillBeWoken, Changed, Announced, TypeOK, ThreadTypes, InPair
    <3>1. pc[t] = "pairWaiting" /\ x \notin spoiled
      BY <2>1 DEF IInv, TypeOK, ThreadTypes
    <3>2. /\ x \in pairing
          /\ \/ x \notin Devices
             \/ bond[x] \in {"asked", "bonding"} \/ Announced(Changed(x))
      BY <3>1 DEF IInv, PairerWillBeWoken
    <3>3. ASSUME d = x PROVE FALSE
      <4>1. d \in named /\ d \in pairing
        BY <1>3, <3>2, <3>3 DEF OnDeviceChanged
      <4>2. NotifyAll
        BY <1>3, <4>1 DEF OnDeviceChanged
      <4> QED BY <4>2, <3>1 DEF NotifyAll
    <3>4. Changed(x) # Head(broadcasts)
      BY <1>3, <3>3 DEF Changed
    <3> QED BY <1>1, <3>2, <3>4
  <2>5. OverlapsSpoil'
    BY <1>2, <2>1 DEF IInv, OverlapsSpoil, SameDevice, InPair
  <2>6. HasteSpoils'
    BY <1>2, <1>3, <2>1
       DEF IInv, HasteSpoils, PairerWillBeWoken, OnDeviceChanged, NotifyAll
  <2>7. HeardIsFetched'
    BY <1>2, <1>3, <2>1 DEF IInv, TypeOK, SetTypes, HeardIsFetched, OnDeviceChanged, InRead
  <2>8. DiscoveryWillStop' /\ EndlessIsWanted'
    BY DEF IInv, DiscoveryWillStop, EndlessIsWanted, Receive, scanVars
  <2> QED BY <2>2, <2>3, <2>4, <2>5, <2>6, <2>7, <2>8 DEF IInv
<1>4. ASSUME pc' = pc, spoiled' = spoiled, fetched \subseteq fetched', fetched' \subseteq Devices,
             \A d \in Devices : Head(broadcasts) # Changed(d),
             \A t \in heard' \ heard : /\ t \in Threads /\ pc[t] \in InRead
                                       /\ address[t] \in Devices => address[t] \in fetched'
      PROVE  IInv'
  <2>1. TypeOK'
    BY <1>1, <1>2, <1>4
       DEF IInv, TypeOK, ThreadTypes, SetTypes, FlagTypes, Receive, uuidVars,
           scanVars
  <2>2. EntriesHaveOwner' /\ OverlapsSpoil' /\ HasteSpoils'
    BY <1>2, <1>4 DEF IInv, EntriesHaveOwner, OverlapsSpoil, SameDevice, HasteSpoils
  <2>3. PairerWillBeWoken'
    BY <1>1, <1>2, <1>4
       DEF IInv, TypeOK, ThreadTypes, PairerWillBeWoken, Changed, InPair
  <2>4. HeardIsFetched'
    BY <1>2, <1>4 DEF IInv, HeardIsFetched
  <2>5. DiscoveryWillStop' /\ EndlessIsWanted'
    BY DEF IInv, DiscoveryWillStop, EndlessIsWanted, Receive, scanVars
  <2> QED BY <2>1, <2>2, <2>3, <2>4, <2>5 DEF IInv
<1>5. ASSUME NEW d \in Devices, Head(broadcasts) = Uuids(d), OnUUIDProbed(d)
      PROVE  IInv'
  BY <1>4, <1>5, BluetoothAssumption
     DEF OnUUIDProbed, Uuids, Changed, IInv, TypeOK, SetTypes
<1> QED BY <1>3, <1>5 DEF Receive

LEMMA NextIInv == IInv /\ [Next]_vars => IInv'
<1> SUFFICES ASSUME IInv, [Next]_vars PROVE IInv'
  OBVIOUS
<1>1. CASE Next
  BY <1>1, PairDeviceStep, ReadUUIDsStep, PairRoundStep, ReadRoundStep, WaitEndsStep,
     StartDiscoveryStep, TryDiscoveryStep, AfterAskingStep, SetDiscoveringStep, TickStep,
     StopsStep, ReceiveStep,
     BondingBeginsStep, BondingEndsStep, ProbeEndsStep, EnvironmentStep
     DEF Next
<1>2. CASE UNCHANGED vars
  BY <1>2
     DEF vars, mapVars, callVars, bondVars, uuidVars, scanVars, historyVars, IInv, TypeOK,
     ThreadTypes, SetTypes, FlagTypes, EntriesHaveOwner, PairerWillBeWoken,
     DiscoveryWillStop,
     OverlapsSpoil, HasteSpoils, HeardIsFetched, EndlessIsWanted, Announced, SameDevice
<1> QED BY <1>1, <1>2

-----------------------------------------------------------------------------
(* The theorems *)

(* In every reachable state the invariant holds; in particular whoever waits
   in pairDevice, for a device whose pairing is not spoiled, will be notified. *)
THEOREM InvariantHolds == Spec => []IInv
<1>1. Init => IInv
  BY InitIInv
<1>2. IInv /\ [Next]_vars => IInv'
  BY NextIInv
<1> QED BY <1>1, <1>2, PTL DEF Spec

(* pairDevice blames the user only for a bonding that ended without a bond. *)
THEOREM CancelledMeansItHolds == Spec => CancelledMeansIt
<1> DEFINE Honest == \A t \in Threads : pc[t] # "cancelled" /\ pc'[t] = "cancelled"
                        => bond[DeviceAt[address[t]]] = "none" \/ address[t] \in spoiled
<1>1. ASSUME IInv, Next PROVE Honest
  <2> SUFFICES ASSUME NEW t \in Threads, pc[t] # "cancelled", pc'[t] = "cancelled"
               PROVE  bond[DeviceAt[address[t]]] = "none" \/ address[t] \in spoiled
    OBVIOUS
  <2>1. PairRound(t)
    BY <1>1
       DEF Next, IInv, TypeOK, ThreadTypes, InPair, InRead, InDiscovery, Outcomes,
           PairDevice, ReadUUIDs,
       PairRound, Begin, Finish, ReadRound, FetchedOrTimeout, WaitOrTimeout, WaitEnds,
       StartDiscovery, TryDiscovery,
       AfterAsking, SetDiscovering, TimerFires, ScriptStops, Tick, Receive, OnDeviceChanged,
       NotifyAll, OnUUIDProbed,
       BondingBegins, BondingEnds, ProbeEnds, Environment, Call, Goto, Return, callVars
  <2>2. /\ address[t] \in pairing /\ address[t] \in Addresses
        /\ bond[DeviceAt[address[t]]] \in {"none", "asked"}
    BY <1>1, <2>1, BluetoothAssumption
       DEF IInv, TypeOK, ThreadTypes, PairRound, Begin, Finish, Goto, Return, InPair
  <2>3. CASE pc[t] = "pairWoken"
    BY <1>1, <2>2, <2>3 DEF IInv, HasteSpoils
  <2>4. CASE pc[t] = "pair"
    <3>1. PICK u \in Threads : pc[u] \in {"pairWaiting", "pairWoken"} /\ address[u] = address[t]
      BY <1>1, <2>2 DEF IInv, EntriesHaveOwner
    <3> QED BY <1>1, <2>4, <3>1 DEF IInv, OverlapsSpoil, SameDevice, InPair
  <2> QED BY <2>1, <2>3, <2>4 DEF PairRound
<1>2. IInv /\ [Next]_vars => [Honest]_vars
  BY <1>1
<1> QED BY <1>2, InvariantHolds, PTL DEF Spec, CancelledMeansIt

(* readUUIDs does not report a timeout over UUIDs that were announced. *)
THEOREM ProbesAreNotLostHolds == Spec => ProbesAreNotLost
<1> DEFINE Honest == \A t \in Threads : pc[t] # "timeout" /\ pc'[t] = "timeout"
                        => t \notin heard \/ t \in robbed \/ address[t] \notin Devices
<1>1. ASSUME IInv, Next PROVE Honest
  <2> SUFFICES ASSUME NEW t \in Threads, pc[t] # "timeout", pc'[t] = "timeout"
               PROVE  t \notin heard \/ t \in robbed \/ address[t] \notin Devices
    OBVIOUS
  <2>1. ReadRound(t)
    BY <1>1
       DEF Next, IInv, TypeOK, ThreadTypes, InPair, InRead, InDiscovery, Outcomes,
           PairDevice, ReadUUIDs,
       PairRound, Begin, Finish, ReadRound, FetchedOrTimeout, WaitOrTimeout, WaitEnds,
       StartDiscovery, TryDiscovery,
       AfterAsking, SetDiscovering, TimerFires, ScriptStops, Tick, Receive, OnDeviceChanged,
       NotifyAll, OnUUIDProbed,
       BondingBegins, BondingEnds, ProbeEnds, Environment, Call, Goto, Return, callVars
  <2>2. address[t] \notin fetched
    BY <1>1, <2>1 DEF IInv, TypeOK, ThreadTypes, ReadRound, FetchedOrTimeout, WaitOrTimeout,
       Goto, Return
  <2> QED BY <1>1, <2>2 DEF IInv, HeardIsFetched
<1>2. IInv /\ [Next]_vars => [Honest]_vars
  BY <1>1
<1> QED BY <1>2, InvariantHolds, PTL DEF Spec, ProbesAreNotLost
=============================================================================
