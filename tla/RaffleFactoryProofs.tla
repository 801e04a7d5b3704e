------------------------- MODULE RaffleFactoryProofs -------------------------
(***************************************************************************)
(* Proofs about RaffleFactory, for any number of addresses, creators,      *)
(* proposals, raffles and schedules: types, the timelock, announced fees,  *)
(* the rate limit, the handover of the admin role and the registry.        *)
(***************************************************************************)
EXTENDS RaffleFactory, FiniteSetTheorems, SequenceTheorems, TLAPS

-----------------------------------------------------------------------------
(* Types, with those of the indexes and of the history.                     *)

Address == Creators \X Descriptions

Schedule == [creator : Creators, description : Descriptions, fee : Nat, nextDue : Nat,
             round : Nat, active : BOOLEAN, instances : Seq(Address)]

IndexType ==
    /\ creatorRaffles \in [Creators -> Seq(Address)]
    /\ categoryRaffles \in Seq(Address)
    /\ checkpoints \in Seq([count : Nat, at : Nat])
    /\ schedules \in Seq(Schedule)

HistoryType == feesProposed \subseteq [fee : Nat, at : Nat]

\* The conjuncts of TypeOK, grouped by what changes together.
AdminType ==
    /\ admin \in Addresses \ {Self}
    /\ pendingAdmin \in (Addresses \ {Self}) \cup {None}

ConfigType ==
    /\ DOMAIN config = ConfigKeys
    /\ config.fee \in 0..MaxProtocolFeeBp
    /\ config.treasury \in (Treasuries \cup {InitialConfig.treasury}) \ {Self}
    /\ config.wasm \in WasmHashes

OpsType == pendingOps \subseteq Op /\ opCounter \in 0..MaxOps

LimitType ==
    /\ switches \subseteq {"factory", "creation"}
    /\ minCreationDelay \in CreationDelays
    /\ partners \subseteq Creators

RegistryType ==
    /\ registry \in Seq(Address)
    /\ DOMAIN raffles \subseteq Address
    /\ \A a \in DOMAIN raffles : raffles[a] \in Raffle
    /\ totalCreated \in 0..MaxRaffles

StampType == lastCreation \in [Creators -> Nat]

TypeInv ==
    /\ AdminType /\ ConfigType /\ OpsType /\ LimitType /\ RegistryType /\ StampType
    /\ now \in Nat
    /\ IndexType /\ HistoryType

LEMMA TypeInvTypeOK == TypeInv => TypeOK
  BY DEF TypeInv, TypeOK, AdminType, ConfigType, OpsType, LimitType, RegistryType,
         StampType, Address

\* What a call leaves alone keeps its type.
LEMMA TypeFrame ==
    ASSUME TypeInv
    PROVE  /\ UNCHANGED adminVars => AdminType'
           /\ UNCHANGED config => ConfigType'
           /\ UNCHANGED <<pendingOps, opCounter>> => OpsType'
           /\ UNCHANGED limitVars => LimitType'
           /\ UNCHANGED registryVars => RegistryType'
           /\ UNCHANGED lastCreation => StampType'
           /\ UNCHANGED <<registryVars, schedules>> => IndexType'
           /\ UNCHANGED feesProposed => HistoryType'
           /\ UNCHANGED now => now' \in Nat
<1> USE DEF TypeInv
<1>1. UNCHANGED adminVars => AdminType'
  BY DEF AdminType, adminVars
<1>2. UNCHANGED config => ConfigType'
  BY DEF ConfigType
<1>3. UNCHANGED <<pendingOps, opCounter>> => OpsType'
  BY DEF OpsType
<1>4. UNCHANGED limitVars => LimitType'
  BY DEF LimitType, limitVars
<1>5. UNCHANGED registryVars => RegistryType'
  BY DEF RegistryType, registryVars
<1>6. UNCHANGED lastCreation => StampType'
  BY DEF StampType
<1>7. UNCHANGED <<registryVars, schedules>> => IndexType'
  BY DEF IndexType, registryVars
<1>8. UNCHANGED feesProposed => HistoryType'
  BY DEF HistoryType
<1> QED BY <1>1, <1>2, <1>3, <1>4, <1>5, <1>6, <1>7, <1>8

LEMMA TypeInit == Init => TypeInv
<1> SUFFICES ASSUME Init PROVE TypeInv
  OBVIOUS
<1> USE FactoryAssumption DEF Init
<1>1. AdminType /\ OpsType /\ LimitType /\ StampType
  BY DEF AdminType, OpsType, LimitType, StampType
<1>2. ConfigType
  BY DEF ConfigType
<1>3. RegistryType
  BY DEF RegistryType
<1>4. IndexType /\ HistoryType /\ now \in Nat
  BY DEF IndexType, HistoryType
<1> QED BY <1>1, <1>2, <1>3, <1>4 DEF TypeInv

LEMMA TypeAdmin ==
    ASSUME TypeInv, (\E a \in Addresses : TransferFactoryAdmin(a)) \/ AcceptFactoryAdmin
    PROVE  TypeInv'
<1> USE DEF TransferFactoryAdmin, AcceptFactoryAdmin
<1>1. AdminType'
  BY DEF WithdrawOffer, ValidRole, TypeInv, AdminType
<1>2. ConfigType' /\ OpsType' /\ HistoryType'
  BY TypeFrame DEF configVars
<1>3. LimitType' /\ RegistryType' /\ StampType' /\ IndexType' /\ now' \in Nat
  BY TypeFrame
<1> QED BY <1>1, <1>2, <1>3 DEF TypeInv

\* A proposal adds an operation of its kind.
LEMMA TypePropose ==
    ASSUME TypeInv, NEW key, NEW value, Propose(key, value),
           \/ key = "fee" /\ value \in 0..MaxProtocolFeeBp
           \/ key \in AddressKeys /\ value \in Treasuries \ {Self}
           \/ key = "wasm" /\ value \in WasmHashes
    PROVE  TypeInv'
<1> USE DEF Propose
<1>0. /\ opCounter \in Nat /\ MaxOps \in Nat /\ opCounter < MaxOps
      /\ now \in Nat /\ TimelockDelay \in Nat /\ MaxProtocolFeeBp \in Nat
  BY FactoryAssumption DEF TypeInv, OpsType
<1>1. opCounter + 1 \in 1..MaxOps /\ Due \in Nat
  BY <1>0 DEF Due
<1> DEFINE new == [id |-> opCounter + 1, key |-> key, value |-> value, due |-> Due]
<1>2. new \in Op
  BY <1>1 DEF Op
<1>3. OpsType'
  <2> HIDE DEF new
  <2>1. pendingOps' = pendingOps \cup {new} /\ opCounter' = opCounter + 1
    BY DEF new
  <2> QED BY <1>0, <1>1, <1>2, <2>1 DEF TypeInv, OpsType
<1>4. HistoryType'
  <2>1. CASE key = "fee"
    <3>1. value \in Nat
      BY <1>0, <2>1, FactoryAssumption
    <3>2. [fee |-> value, at |-> now] \in [fee : Nat, at : Nat]
      BY <1>0, <3>1
    <3> QED BY <2>1, <3>2 DEF TypeInv, HistoryType
  <2>2. CASE key # "fee"
    BY <2>2 DEF TypeInv, HistoryType
  <2> QED BY <2>1, <2>2
<1>5. AdminType' /\ ConfigType' /\ LimitType' /\ RegistryType' /\ StampType'
      /\ IndexType' /\ now' \in Nat
  BY TypeFrame
<1> QED BY <1>3, <1>4, <1>5 DEF TypeInv

LEMMA TypeProposals ==
    ASSUME TypeInv,
           \/ \E k \in AddressKeys, a \in Treasuries : SetConfig(k, a)
           \/ \E f \in Fees : ProposeFeeChange(f)
           \/ \E h \in WasmHashes : ProposeWasmUpgrade(h)
    PROVE  TypeInv'
<1>1. ASSUME NEW k \in AddressKeys, NEW a \in Treasuries, SetConfig(k, a)
      PROVE  TypeInv'
  BY <1>1, TypePropose DEF SetConfig, ValidRole
<1>2. ASSUME NEW f \in Fees, ProposeFeeChange(f)
      PROVE  TypeInv'
  <2>1. f \in 0..MaxProtocolFeeBp
    BY <1>2, FactoryAssumption DEF ProposeFeeChange
  <2> QED BY <1>2, <2>1, TypePropose DEF ProposeFeeChange
<1>3. ASSUME NEW h \in WasmHashes, ProposeWasmUpgrade(h)
      PROVE  TypeInv'
  BY <1>3, TypePropose DEF ProposeWasmUpgrade
<1> QED BY <1>1, <1>2, <1>3

\* An operation changes the setting it names to a value of that setting's type.
LEMMA TypeExecute ==
    ASSUME TypeInv, NEW op \in pendingOps,
           ExecuteConfigChange(op) \/ CancelConfigChange(op)
    PROVE  TypeInv'
<1> USE DEF ExecuteConfigChange, CancelConfigChange, RemoveOp
<1>1. OpsType'
  BY DEF TypeInv, OpsType
<1>2. ConfigType'
  <2>1. CASE CancelConfigChange(op)
    BY <2>1 DEF TypeInv, ConfigType
  <2>2. CASE ExecuteConfigChange(op)
    <3>1. /\ op.key = "fee" => op.value \in 0..MaxProtocolFeeBp
          /\ op.key = "treasury" => op.value \in Treasuries \ {Self}
          /\ op.key = "wasm" => op.value \in WasmHashes
      BY FactoryAssumption DEF TypeInv, OpsType, Op
    <3>2. \A k \in ConfigKeys : config'[k] = IF k = op.key THEN op.value ELSE config[k]
      BY <2>2
    <3>3. DOMAIN config' = ConfigKeys
      BY <2>2
    <3>4. config'.fee \in 0..MaxProtocolFeeBp
      BY <3>1, <3>2 DEF ConfigKeys, TypeInv, ConfigType
    <3>5. config'.treasury \in (Treasuries \cup {InitialConfig.treasury}) \ {Self}
      BY <3>1, <3>2 DEF ConfigKeys, TypeInv, ConfigType
    <3>6. config'.wasm \in WasmHashes
      BY <3>1, <3>2 DEF ConfigKeys, TypeInv, ConfigType
    <3> QED BY <3>3, <3>4, <3>5, <3>6 DEF ConfigType
  <2> QED BY <2>1, <2>2
<1>3. AdminType' /\ LimitType' /\ RegistryType' /\ StampType' /\ IndexType'
      /\ HistoryType' /\ now' \in Nat
  BY TypeFrame
<1> QED BY <1>1, <1>2, <1>3 DEF TypeInv

LEMMA TypeLimits ==
    ASSUME TypeInv,
           \/ \E on \in BOOLEAN : PauseFactory(on) \/ SetCreationPaused(on)
           \/ \E d \in CreationDelays : SetCreationDelay(d)
           \/ \E c \in Creators, on \in BOOLEAN : SetWhitelistStatus(c, on)
    PROVE  TypeInv'
<1> USE DEF PauseFactory, SetCreationPaused, Switched, SetCreationDelay, SetWhitelistStatus
<1>1. LimitType'
  BY DEF TypeInv, LimitType
<1>2. ConfigType' /\ OpsType' /\ HistoryType'
  BY TypeFrame DEF configVars
<1>3. AdminType' /\ RegistryType' /\ StampType' /\ IndexType' /\ now' \in Nat
  BY TypeFrame
<1> QED BY <1>1, <1>2, <1>3 DEF TypeInv

\* A created raffle enters the registry and the indexes.
LEMMA TypeCreated ==
    ASSUME TypeInv, NEW c \in Creators, NEW d \in Descriptions, NEW fee \in Nat,
           NEW kind \in {"limited", "partner", "round"},
           CreateRaffleInternal(c, d, fee, kind)
    PROVE  /\ RegistryType'
           /\ creatorRaffles' \in [Creators -> Seq(Address)]
           /\ categoryRaffles' \in Seq(Address)
           /\ checkpoints' \in Seq([count : Nat, at : Nat])
<1> USE DEF CreateRaffleInternal
<1>a. <<c, d>> \in Address
  BY DEF Address
<1>n. now \in Nat /\ totalCreated \in Nat /\ MaxRaffles \in Nat /\ totalCreated < MaxRaffles
  BY FactoryAssumption DEF TypeInv, RegistryType
<1>1. registry' \in Seq(Address)
  BY <1>a, AppendProperties DEF TypeInv, RegistryType
<1>2. DOMAIN raffles' \subseteq Address
  BY <1>a DEF TypeInv, RegistryType
<1>3. \A a \in DOMAIN raffles' : raffles'[a] \in Raffle
  BY <1>n DEF TypeInv, RegistryType, Raffle
<1>t. totalCreated' \in 0..MaxRaffles
  <2>1. totalCreated' = totalCreated + 1
    OBVIOUS
  <2> QED BY <1>n, <2>1
<1>4. RegistryType'
  BY <1>1, <1>2, <1>3, <1>t DEF RegistryType
<1>5. creatorRaffles' \in [Creators -> Seq(Address)]
  <2>1. creatorRaffles \in [Creators -> Seq(Address)]
    BY DEF TypeInv, IndexType
  <2>2. Append(creatorRaffles[c], <<c, d>>) \in Seq(Address)
    BY <1>a, <2>1, AppendProperties
  <2> QED BY <2>1, <2>2 DEF Indexed
<1>6. categoryRaffles' \in Seq(Address)
  BY <1>a, AppendProperties DEF Indexed, TypeInv, IndexType
<1>7. checkpoints' \in Seq([count : Nat, at : Nat])
  <2>1. [count |-> totalCreated + 1, at |-> now] \in [count : Nat, at : Nat]
    BY <1>n
  <2> QED BY <2>1, AppendProperties DEF MaybeCreateCheckpoint, TypeInv, IndexType
<1> QED BY <1>4, <1>5, <1>6, <1>7

LEMMA TypeCreate ==
    ASSUME TypeInv, NEW c \in Creators, NEW d \in Descriptions, CreateRaffle(c, d)
    PROVE  TypeInv'
<1>1. config.fee \in Nat
  BY FactoryAssumption DEF TypeInv, ConfigType
<1>2. RegistryType' /\ IndexType'
  <2>1. CreateRaffleInternal(c, d, config.fee, "partner")
        \/ CreateRaffleInternal(c, d, config.fee, "limited")
    BY DEF CreateRaffle
  <2>2. RegistryType' /\ creatorRaffles' \in [Creators -> Seq(Address)]
        /\ categoryRaffles' \in Seq(Address) /\ checkpoints' \in Seq([count : Nat, at : Nat])
    BY <1>1, <2>1, TypeCreated
  <2> QED BY <2>2 DEF CreateRaffle, IndexType, TypeInv
<1>3. StampType'
  BY DEF CreateRaffle, Stamp, TypeInv, StampType
<1>4. ConfigType' /\ OpsType' /\ HistoryType'
  BY TypeFrame DEF CreateRaffle, configVars
<1>5. AdminType' /\ LimitType' /\ now' \in Nat
  BY TypeFrame DEF CreateRaffle
<1> QED BY <1>2, <1>3, <1>4, <1>5 DEF TypeInv

LEMMA ScheduleOf ==
    ASSUME TypeInv, NEW i \in DOMAIN schedules
    PROVE  schedules[i] \in Schedule /\ i \in Nat /\ i \in 1..Len(schedules)
<1>1. schedules \in Seq(Schedule)
  BY DEF TypeInv, IndexType
<1> QED BY <1>1, LenProperties

\* Replacing one entry of a sequence by one of the same type.
LEMMA ReplaceType ==
    ASSUME NEW S, NEW s \in Seq(S), NEW i \in DOMAIN s, NEW e \in S
    PROVE  /\ [s EXCEPT ![i] = e] \in Seq(S)
           /\ DOMAIN [s EXCEPT ![i] = e] = DOMAIN s
           /\ [s EXCEPT ![i] = e][i] = e
           /\ \A j \in DOMAIN s : j # i => [s EXCEPT ![i] = e][j] = s[j]
<1>1. DOMAIN s = 1..Len(s) /\ Len(s) \in Nat
  BY LenProperties
<1>2. [s EXCEPT ![i] = e] \in [1..Len(s) -> S]
  BY <1>1
<1> QED BY <1>1, <1>2

\* The schedule after a round.
NextRound(s) == [s EXCEPT !.round = @ + 1, !.nextDue = now + Interval,
                          !.instances = Append(@, <<s.creator, s.description>>)]

LEMMA NextRoundType ==
    ASSUME TypeInv, NEW s \in Schedule
    PROVE  /\ NextRound(s) \in Schedule
           /\ NextRound(s).round = s.round + 1
           /\ NextRound(s).instances = Append(s.instances, <<s.creator, s.description>>)
<1>1. now + Interval \in Nat /\ s.round + 1 \in Nat
  <2>1. Interval \in Nat
    BY FactoryAssumption
  <2>2. now \in Nat /\ s.round \in Nat
    BY DEF TypeInv, Schedule
  <2> QED BY <2>1, <2>2
<1>2. Append(s.instances, <<s.creator, s.description>>) \in Seq(Address)
  <2>1. s.instances \in Seq(Address) /\ <<s.creator, s.description>> \in Address
    BY DEF Schedule, Address
  <2> QED BY <2>1, AppendProperties
<1> QED BY <1>1, <1>2 DEF NextRound, Schedule

LEMMA TriggerReplaces ==
    ASSUME TypeInv, NEW i \in DOMAIN schedules, TriggerNextRound(i)
    PROVE  schedules' = [schedules EXCEPT ![i] = NextRound(schedules[i])]
<1>1. schedules[i] \in Schedule
  BY ScheduleOf
<1> QED BY <1>1 DEF TriggerNextRound, NextRound, Schedule

LEMMA TypeSchedules ==
    ASSUME TypeInv,
           \/ \E c \in Creators, d \in Descriptions, f \in BaseFees :
                 CreateRecurringRaffle(c, d, f)
           \/ \E i \in DOMAIN schedules : TriggerNextRound(i) \/ CancelRecurringRaffle(i)
    PROVE  TypeInv'
<1>s. schedules \in Seq(Schedule) /\ now \in Nat
  BY DEF TypeInv, IndexType
<1>1. ASSUME NEW c \in Creators, NEW d \in Descriptions, NEW f \in BaseFees,
             CreateRecurringRaffle(c, d, f)
      PROVE  TypeInv'
  <2> USE <1>1 DEF CreateRecurringRaffle
  <2> DEFINE new == [creator |-> c, description |-> d, fee |-> f, nextDue |-> now + Interval,
                     round |-> 0, active |-> TRUE, instances |-> << >>]
  <2>1. new \in Schedule
    <3>1. Interval \in Nat /\ f \in Nat
      BY FactoryAssumption
    <3>2. now + Interval \in Nat
      BY <1>s, <3>1
    <3>3. << >> \in Seq(Address)
      BY EmptySeq
    <3> QED BY <3>1, <3>2, <3>3 DEF Schedule
  <2>2. schedules' \in Seq(Schedule)
    <3> HIDE DEF new
    <3>1. schedules' = Append(schedules, new)
      BY DEF new
    <3> QED BY <1>s, <2>1, <3>1, AppendProperties
  <2>3. IndexType'
    BY <2>2 DEF TypeInv, IndexType, registryVars
  <2>4. ConfigType' /\ OpsType' /\ HistoryType'
    BY TypeFrame DEF configVars
  <2>5. AdminType' /\ LimitType' /\ RegistryType' /\ StampType' /\ now' \in Nat
    BY TypeFrame
  <2> QED BY <2>3, <2>4, <2>5 DEF TypeInv
<1>2. ASSUME NEW i \in DOMAIN schedules, CancelRecurringRaffle(i)
      PROVE  TypeInv'
  <2> USE <1>2 DEF CancelRecurringRaffle
  <2>1. schedules[i] \in Schedule
    BY ScheduleOf
  <2>2. [schedules[i] EXCEPT !.active = FALSE] \in Schedule
    BY <2>1 DEF Schedule
  <2>3. schedules' = [schedules EXCEPT ![i] = [schedules[i] EXCEPT !.active = FALSE]]
    BY <2>1 DEF Schedule
  <2>4. schedules' \in Seq(Schedule)
    BY <1>s, <2>2, <2>3, ReplaceType
  <2>5. IndexType'
    BY <2>4 DEF TypeInv, IndexType, registryVars
  <2>6. ConfigType' /\ OpsType' /\ HistoryType'
    BY TypeFrame DEF configVars
  <2>7. AdminType' /\ LimitType' /\ RegistryType' /\ StampType' /\ now' \in Nat
    BY TypeFrame
  <2> QED BY <2>5, <2>6, <2>7 DEF TypeInv
<1>3. ASSUME NEW i \in DOMAIN schedules, TriggerNextRound(i)
      PROVE  TypeInv'
  <2> DEFINE s == schedules[i]
  <2>1. s \in Schedule
    BY ScheduleOf
  <2>2. s.creator \in Creators /\ s.description \in Descriptions /\ s.fee \in Nat
    BY <2>1 DEF Schedule
  <2>3. CreateRaffleInternal(s.creator, s.description, s.fee, "round")
        /\ UNCHANGED <<adminVars, configVars, limitVars, lastCreation, now>>
    BY <1>3 DEF TriggerNextRound
  <2>4. RegistryType' /\ creatorRaffles' \in [Creators -> Seq(Address)]
        /\ categoryRaffles' \in Seq(Address) /\ checkpoints' \in Seq([count : Nat, at : Nat])
    BY <2>2, <2>3, TypeCreated
  <2>5. schedules' \in Seq(Schedule)
    <3>1. NextRound(s) \in Schedule
      BY <2>1, NextRoundType
    <3>2. schedules' = [schedules EXCEPT ![i] = NextRound(s)]
      BY <1>3, TriggerReplaces
    <3> HIDE DEF s
    <3> QED BY <1>s, <3>1, <3>2, ReplaceType
  <2>6. IndexType'
    BY <2>4, <2>5 DEF IndexType
  <2>7. ConfigType' /\ OpsType' /\ HistoryType'
    BY <2>3, TypeFrame DEF configVars
  <2>8. AdminType' /\ LimitType' /\ StampType' /\ now' \in Nat
    BY <2>3, TypeFrame
  <2> QED BY <2>4, <2>6, <2>7, <2>8 DEF TypeInv
<1> QED BY <1>1, <1>2, <1>3

LEMMA TypeNext == TypeInv /\ [Next]_vars => TypeInv'
<1> SUFFICES ASSUME TypeInv, [Next]_vars PROVE TypeInv'
  OBVIOUS
<1>1. CASE Govern
  BY <1>1, TypeAdmin, TypeProposals, TypeExecute, TypeLimits DEF Govern
<1>2. CASE Create
  BY <1>2, TypeCreate, TypeSchedules DEF Create
<1>3. CASE Tick
  <2>1. now' \in Nat
    BY <1>3 DEF Tick, TypeInv
  <2>2. ConfigType' /\ OpsType' /\ HistoryType'
    BY <1>3, TypeFrame DEF Tick, configVars
  <2>3. AdminType' /\ LimitType' /\ RegistryType' /\ StampType' /\ IndexType'
    BY <1>3, TypeFrame DEF Tick
  <2> QED BY <2>1, <2>2, <2>3 DEF TypeInv
<1>4. CASE UNCHANGED vars
  <2>1. ConfigType' /\ OpsType' /\ HistoryType'
    BY <1>4, TypeFrame DEF vars, configVars
  <2>2. AdminType' /\ LimitType' /\ RegistryType' /\ StampType' /\ IndexType' /\ now' \in Nat
    BY <1>4, TypeFrame DEF vars
  <2> QED BY <2>1, <2>2 DEF TypeInv
<1> QED BY <1>1, <1>2, <1>3, <1>4 DEF Next

LEMMA TypeAlways == Spec => []TypeInv
  BY TypeInit, TypeNext, PTL DEF Spec

\* The keys of the factory keep their types under every order of calls; the fee
\* in force stays within the cap of propose_fee_change and execute_config_change,
\* and the factory never becomes its own admin or treasury.
THEOREM FactoryTypeCorrect == Spec => []TypeOK
  BY TypeInvTypeOK, TypeAlways, PTL

-----------------------------------------------------------------------------
(* Which calls can change what.                                             *)

Proposal ==
    \/ \E k \in AddressKeys, a \in Treasuries : SetConfig(k, a)
    \/ \E f \in Fees : ProposeFeeChange(f)
    \/ \E h \in WasmHashes : ProposeWasmUpgrade(h)

AdminCall == (\E a \in Addresses : TransferFactoryAdmin(a)) \/ AcceptFactoryAdmin

LimitCall ==
    \/ \E on \in BOOLEAN : PauseFactory(on) \/ SetCreationPaused(on)
    \/ \E d \in CreationDelays : SetCreationDelay(d)
    \/ \E c \in Creators, on \in BOOLEAN : SetWhitelistStatus(c, on)

\* Only the handover changes adminVars.
LEMMA AdminSteps ==
    ASSUME [Next]_vars
    PROVE  UNCHANGED adminVars \/ AdminCall
<1>1. CASE Govern
  BY <1>1 DEF Govern, AdminCall, SetConfig, ProposeFeeChange, ProposeWasmUpgrade, Propose,
              ExecuteConfigChange, CancelConfigChange, PauseFactory, SetCreationPaused,
              Switched, SetCreationDelay, SetWhitelistStatus
<1>2. CASE Create
  BY <1>2 DEF Create, CreateRaffle, CreateRecurringRaffle, TriggerNextRound,
              CancelRecurringRaffle
<1>3. CASE Tick \/ UNCHANGED vars
  BY <1>3 DEF Tick, vars
<1> QED BY <1>1, <1>2, <1>3 DEF Next

\* Only a proposal, an execution or a cancellation changes configVars, and
\* neither the clock nor the raffles change with them.
LEMMA ConfigSteps ==
    ASSUME [Next]_vars
    PROVE  \/ UNCHANGED configVars
           \/ Proposal /\ UNCHANGED <<registryVars, now>>
           \/ \E op \in pendingOps : /\ ExecuteConfigChange(op) \/ CancelConfigChange(op)
                                     /\ UNCHANGED <<registryVars, now>>
<1>1. CASE Govern
  <2>1. CASE Proposal
    <3>1. UNCHANGED <<registryVars, now>>
      BY <2>1 DEF Proposal, SetConfig, ProposeFeeChange, ProposeWasmUpgrade, Propose
    <3> QED BY <2>1, <3>1
  <2>2. ASSUME NEW op \in pendingOps, ExecuteConfigChange(op) \/ CancelConfigChange(op)
        PROVE  UNCHANGED <<registryVars, now>>
    BY <2>2 DEF ExecuteConfigChange, CancelConfigChange
  <2>3. CASE AdminCall
    BY <2>3 DEF AdminCall, TransferFactoryAdmin, AcceptFactoryAdmin
  <2>4. CASE LimitCall
    BY <2>4 DEF LimitCall, PauseFactory, SetCreationPaused, Switched, SetCreationDelay,
                SetWhitelistStatus
  <2> QED BY <1>1, <2>1, <2>2, <2>3, <2>4 DEF Govern, Proposal, AdminCall, LimitCall
<1>2. CASE Create
  BY <1>2 DEF Create, CreateRaffle, CreateRecurringRaffle, TriggerNextRound,
              CancelRecurringRaffle
<1>3. CASE Tick \/ UNCHANGED vars
  BY <1>3 DEF Tick, vars
<1> QED BY <1>1, <1>2, <1>3 DEF Next

\* Only create_raffle and trigger_next_round deploy a raffle or stamp a creator.
LEMMA RaffleSteps ==
    ASSUME [Next]_vars
    PROVE  \/ UNCHANGED <<registryVars, lastCreation>>
           \/ \E c \in Creators, d \in Descriptions : CreateRaffle(c, d)
           \/ \E i \in DOMAIN schedules : TriggerNextRound(i)
<1>1. CASE Govern
  BY <1>1 DEF Govern, TransferFactoryAdmin, AcceptFactoryAdmin,
              SetConfig, ProposeFeeChange, ProposeWasmUpgrade, Propose,
              ExecuteConfigChange, CancelConfigChange, PauseFactory, SetCreationPaused,
              Switched, SetCreationDelay, SetWhitelistStatus
<1>2. CASE Create
  BY <1>2 DEF Create, CreateRecurringRaffle, CancelRecurringRaffle
<1>3. CASE Tick \/ UNCHANGED vars
  BY <1>3 DEF Tick, vars
<1> QED BY <1>1, <1>2, <1>3 DEF Next

\* The clock only advances, and stands still while a raffle is created.
LEMMA ClockSteps ==
    ASSUME TypeInv, [Next]_vars
    PROVE  now' \in Nat /\ now' >= now /\ (now' # now => Tick)
<1>0. now \in Nat
  BY DEF TypeInv
<1>1. CASE Govern
  BY <1>0, <1>1 DEF Govern, TransferFactoryAdmin, AcceptFactoryAdmin,
              SetConfig, ProposeFeeChange, ProposeWasmUpgrade, Propose,
              ExecuteConfigChange, CancelConfigChange, PauseFactory, SetCreationPaused,
              Switched, SetCreationDelay, SetWhitelistStatus
<1>2. CASE Create
  <2>1. UNCHANGED now
    BY <1>2 DEF Create, CreateRaffle, CreateRecurringRaffle, TriggerNextRound,
                CancelRecurringRaffle
  <2> QED BY <1>0, <2>1
<1>3. CASE Tick \/ UNCHANGED vars
  BY <1>0, <1>3 DEF Tick, vars
<1> QED BY <1>1, <1>2, <1>3 DEF Next

-----------------------------------------------------------------------------
(* The handover of the admin role.                                          *)

\* The offer that is stored is the one the admin made last.
OfferStands == offered = pendingAdmin

LEMMA OfferInit == Init => OfferStands
  BY DEF Init, OfferStands

LEMMA OfferNext == OfferStands /\ [Next]_vars => OfferStands'
<1> SUFFICES ASSUME OfferStands, [Next]_vars PROVE OfferStands'
  OBVIOUS
<1>1. CASE UNCHANGED adminVars
  BY <1>1 DEF adminVars, OfferStands
<1>2. CASE AdminCall
  BY <1>2 DEF AdminCall, TransferFactoryAdmin, AcceptFactoryAdmin, WithdrawOffer, OfferStands
<1> QED BY <1>1, <1>2, AdminSteps

\* accept_factory_admin can hand the role only to the address the admin named
\* last: an offer that transfer_factory_admin took back is never accepted.
THEOREM OfferIsAccepted == Spec => OfferAccepted
<1>1. OfferStands /\ [Next]_vars => [admin' # admin => admin' = offered]_vars
  <2> SUFFICES ASSUME OfferStands, [Next]_vars, admin' # admin PROVE admin' = offered
    OBVIOUS
  <2>1. AdminCall
    BY AdminSteps DEF adminVars
  <2> QED BY <2>1 DEF AdminCall, TransferFactoryAdmin, AcceptFactoryAdmin, OfferStands
<1>2. Spec => []OfferStands
  BY OfferInit, OfferNext, PTL DEF Spec
<1> QED BY <1>1, <1>2, PTL DEF Spec, OfferAccepted

-----------------------------------------------------------------------------
(* The rate limit.                                                          *)

\* No raffle is from the future, and the stamp of a creator is at least as late
\* as every raffle it made under the limit.
StampsKept ==
    \A a \in DOMAIN raffles :
        /\ raffles[a].at <= now
        /\ raffles[a].kind = "limited" => raffles[a].at <= lastCreation[a[1]]

LEMMA StampsInit == Init => StampsKept
  BY DEF Init, StampsKept

LEMMA StampsNext == TypeInv /\ StampsKept /\ [Next]_vars => StampsKept'
<1> SUFFICES ASSUME TypeInv, StampsKept, [Next]_vars PROVE StampsKept'
  OBVIOUS
<1>n. now \in Nat /\ now' \in Nat /\ now' >= now
  BY ClockSteps DEF TypeInv
<1>r. \A a \in DOMAIN raffles : raffles[a] \in Raffle /\ raffles[a].at \in Nat /\ a[1] \in Creators
  BY DEF TypeInv, RegistryType, Raffle, Address
<1>l. lastCreation \in [Creators -> Nat]
  BY DEF TypeInv, StampType
<1>1. CASE UNCHANGED <<registryVars, lastCreation>>
  BY <1>1, <1>n, <1>r DEF StampsKept, registryVars
<1>2. ASSUME NEW c \in Creators, NEW d \in Descriptions, CreateRaffle(c, d)
      PROVE  StampsKept'
  <2>0. now' = now
    BY <1>2 DEF CreateRaffle
  <2>1. CASE c \in partners
    BY <1>2, <1>n, <1>r, <2>0, <2>1 DEF CreateRaffle, CreateRaffleInternal, StampsKept
  <2>2. CASE c \notin partners
    <3>1. CreateRaffleInternal(c, d, config.fee, "limited")
          /\ lastCreation' = [lastCreation EXCEPT ![c] = now]
      BY <1>2, <2>2 DEF CreateRaffle, Stamp
    <3> SUFFICES ASSUME NEW a \in DOMAIN raffles'
                 PROVE  /\ raffles'[a].at <= now'
                        /\ raffles'[a].kind = "limited" => raffles'[a].at <= lastCreation'[a[1]]
      BY DEF StampsKept
    <3>2. CASE a = <<c, d>>
      BY <1>n, <1>l, <2>0, <3>1, <3>2 DEF CreateRaffleInternal
    <3>3. CASE a # <<c, d>>
      <4>1. a \in DOMAIN raffles /\ raffles'[a] = raffles[a]
        BY <3>1, <3>3 DEF CreateRaffleInternal
      <4> QED BY <1>n, <1>r, <1>l, <2>0, <3>1, <4>1 DEF StampsKept
    <3> QED BY <3>2, <3>3
  <2> QED BY <2>1, <2>2
<1>3. ASSUME NEW i \in DOMAIN schedules, TriggerNextRound(i)
      PROVE  StampsKept'
  BY <1>3, <1>n, <1>r DEF TriggerNextRound, CreateRaffleInternal, StampsKept
<1> QED BY <1>1, <1>2, <1>3, RaffleSteps

\* create_raffle keeps a creator that is not whitelisted to the delay in force,
\* counted from every raffle it ever made under the limit: switching it to
\* partner and back, changing the delay, or rounds of its schedules in between
\* open no gap.
THEOREM CreationIsLimited == Spec => RateLimited
<1> DEFINE Kept == \A a \in DOMAIN raffles' \ DOMAIN raffles : raffles'[a].kind = "limited" =>
                      \A b \in DOMAIN raffles :
                          b[1] = a[1] /\ raffles[b].kind = "limited"
                          => now >= raffles[b].at + minCreationDelay
<1>1. TypeInv /\ StampsKept /\ [Next]_vars => [Kept]_vars
  <2> SUFFICES ASSUME TypeInv, StampsKept, [Next]_vars,
                      NEW a \in DOMAIN raffles' \ DOMAIN raffles, raffles'[a].kind = "limited",
                      NEW b \in DOMAIN raffles, b[1] = a[1], raffles[b].kind = "limited"
               PROVE  now >= raffles[b].at + minCreationDelay
    OBVIOUS
  <2>1. \E c \in Creators, d \in Descriptions : CreateRaffle(c, d)
    <3>1. ~UNCHANGED <<registryVars, lastCreation>>
      BY DEF registryVars
    <3>2. ASSUME NEW i \in DOMAIN schedules, TriggerNextRound(i)
          PROVE  FALSE
      BY <3>2 DEF TriggerNextRound, CreateRaffleInternal
    <3> QED BY <3>1, <3>2, RaffleSteps
  <2>2. PICK c \in Creators, d \in Descriptions : CreateRaffle(c, d)
    BY <2>1
  <2>3. c \notin partners /\ a = <<c, d>>
    BY <2>2 DEF CreateRaffle, CreateRaffleInternal
  <2>4. now >= lastCreation[c] + minCreationDelay
    BY <2>2, <2>3 DEF CreateRaffle
  <2>5. lastCreation[c] \in Nat /\ minCreationDelay \in Nat /\ raffles[b].at \in Nat /\ now \in Nat
    BY FactoryAssumption DEF TypeInv, StampType, LimitType, RegistryType, Raffle
  <2>6. raffles[b].at <= lastCreation[c]
    BY <2>3 DEF StampsKept
  <2> HIDE DEF Kept
  <2> QED BY <2>4, <2>5, <2>6
<1>2. Spec => []StampsKept
  BY StampsInit, StampsNext, TypeAlways, PTL DEF Spec
<1> QED BY <1>1, <1>2, TypeAlways, PTL DEF Spec, RateLimited

-----------------------------------------------------------------------------
(* Announced fees.                                                          *)

\* A fee that has been proposed long enough before time t.
AnnouncedIn(P, fee, t) == \E p \in P : p.fee = fee /\ p.at + TimelockDelay <= t

\* A pending fee was proposed the whole delay before it is due, and the fee in
\* force the whole delay ago.
FeesTracked ==
    /\ \A op \in pendingOps : op.key = "fee" => AnnouncedIn(feesProposed, op.value, op.due)
    /\ config.fee = InitialConfig.fee \/ AnnouncedIn(feesProposed, config.fee, now)

FeeInv == FeesTracked /\ FeesAnnounced

LEMMA FeeInit == Init => FeeInv
  BY DEF Init, FeeInv, FeesTracked, FeesAnnounced

\* What was announced stays announced.
LEMMA AnnouncedStays ==
    ASSUME TypeInv, feesProposed \subseteq feesProposed', NEW fee,
           NEW t \in Nat, NEW u \in Nat, t <= u, AnnouncedIn(feesProposed, fee, t)
    PROVE  AnnouncedIn(feesProposed', fee, u)
<1>1. PICK p \in feesProposed : p.fee = fee /\ p.at + TimelockDelay <= t
  BY DEF AnnouncedIn
<1>2. p.at \in Nat /\ TimelockDelay \in Nat
  BY FactoryAssumption DEF TypeInv, HistoryType
<1>3. p.at + TimelockDelay <= u
  BY <1>1, <1>2
<1> QED BY <1>1, <1>3 DEF AnnouncedIn

LEMMA ProposalSteps ==
    ASSUME Proposal
    PROVE  \E key \in {"fee", "wasm"} \cup AddressKeys : \E value : Propose(key, value)
<1>1. CASE \E k \in AddressKeys, a \in Treasuries : SetConfig(k, a)
  BY <1>1, Zenon DEF SetConfig
<1>2. CASE \E f \in Fees : ProposeFeeChange(f)
  BY <1>2, Zenon DEF ProposeFeeChange
<1>3. CASE \E h \in WasmHashes : ProposeWasmUpgrade(h)
  BY <1>3, Zenon DEF ProposeWasmUpgrade
<1> QED BY <1>1, <1>2, <1>3, Zenon DEF Proposal

LEMMA HistoryGrows ==
    ASSUME TypeInv, [Next]_vars
    PROVE  feesProposed \subseteq feesProposed'
<1>1. CASE UNCHANGED configVars
  BY <1>1 DEF configVars
<1>2. CASE Proposal
  BY <1>2, ProposalSteps DEF Propose
<1>3. ASSUME NEW op \in pendingOps, ExecuteConfigChange(op) \/ CancelConfigChange(op)
      PROVE  feesProposed \subseteq feesProposed'
  BY <1>3 DEF ExecuteConfigChange, CancelConfigChange
<1> QED BY <1>1, <1>2, <1>3, ConfigSteps

LEMMA TrackedNext == TypeInv /\ FeesTracked /\ [Next]_vars => FeesTracked'
<1> SUFFICES ASSUME TypeInv, FeesTracked, [Next]_vars PROVE FeesTracked'
  OBVIOUS
<1>n. now \in Nat /\ now' \in Nat /\ now <= now'
  BY ClockSteps DEF TypeInv
<1>d. \A op \in pendingOps : op.due \in Nat
  BY DEF TypeInv, OpsType, Op
<1>g. feesProposed \subseteq feesProposed'
  BY HistoryGrows
<1>o. \A op \in pendingOps : op.key = "fee" => AnnouncedIn(feesProposed', op.value, op.due)
  <2> SUFFICES ASSUME NEW op \in pendingOps, op.key = "fee"
               PROVE  AnnouncedIn(feesProposed', op.value, op.due)
    OBVIOUS
  <2>1. AnnouncedIn(feesProposed, op.value, op.due)
    BY DEF FeesTracked
  <2> QED BY <1>d, <1>g, <2>1, AnnouncedStays
<1>f. config.fee = InitialConfig.fee \/ AnnouncedIn(feesProposed', config.fee, now')
  BY <1>n, <1>g, AnnouncedStays DEF FeesTracked
<1>1. CASE UNCHANGED configVars
  BY <1>1, <1>o, <1>f DEF configVars, FeesTracked
<1>2. CASE Proposal /\ UNCHANGED now
  <2>1. PICK key \in {"fee", "wasm"} \cup AddressKeys : \E value : Propose(key, value)
    BY <1>2, ProposalSteps
  <2>v. PICK value : Propose(key, value)
    BY <2>1
  <2> DEFINE new == [id |-> opCounter + 1, key |-> key, value |-> value, due |-> Due]
  <2>2. new.key = "fee" => AnnouncedIn(feesProposed', new.value, new.due)
    <3> SUFFICES ASSUME key = "fee" PROVE AnnouncedIn(feesProposed', value, now + TimelockDelay)
      BY DEF Due
    <3>1. [fee |-> value, at |-> now] \in feesProposed'
      BY <2>v DEF Propose
    <3>2. now + TimelockDelay <= now + TimelockDelay
      BY <1>n, FactoryAssumption
    <3> QED BY <1>2, <3>1, <3>2 DEF AnnouncedIn
  <2>3. pendingOps' = pendingOps \cup {new} /\ config' = config
    BY <2>v DEF Propose
  <2> HIDE DEF new
  <2> QED BY <1>o, <1>f, <2>2, <2>3 DEF FeesTracked
<1>3. ASSUME NEW op \in pendingOps, ExecuteConfigChange(op) \/ CancelConfigChange(op),
             UNCHANGED now
      PROVE  FeesTracked'
  <2>1. pendingOps' \subseteq pendingOps
    BY <1>3 DEF ExecuteConfigChange, CancelConfigChange, RemoveOp
  <2>2. config'.fee = InitialConfig.fee \/ AnnouncedIn(feesProposed', config'.fee, now')
    <3>1. CASE CancelConfigChange(op)
      BY <1>f, <3>1 DEF CancelConfigChange
    <3>2. CASE ExecuteConfigChange(op) /\ op.key # "fee"
      <4>1. config'.fee = config.fee
        BY <3>2 DEF ExecuteConfigChange, ConfigKeys
      <4> QED BY <1>f, <4>1
    <3>3. CASE ExecuteConfigChange(op) /\ op.key = "fee"
      <4>1. config'.fee = op.value /\ op.due <= now
        BY <1>n, <1>d, <3>3 DEF ExecuteConfigChange, ConfigKeys
      <4>2. AnnouncedIn(feesProposed, op.value, op.due)
        BY <3>3 DEF FeesTracked
      <4>3. AnnouncedIn(feesProposed', op.value, now)
        BY <1>n, <1>d, <1>g, <4>1, <4>2, AnnouncedStays
      <4> QED BY <1>3, <4>1, <4>3
    <3> QED BY <1>3, <3>1, <3>2, <3>3
  <2> QED BY <1>o, <2>1, <2>2 DEF FeesTracked
<1> QED BY <1>1, <1>2, <1>3, ConfigSteps

LEMMA FeesNext == TypeInv /\ FeeInv /\ [Next]_vars => FeesAnnounced'
<1> SUFFICES ASSUME TypeInv, FeeInv, [Next]_vars,
                    NEW a \in DOMAIN raffles', raffles'[a].kind # "round",
                    raffles'[a].fee # InitialConfig.fee
             PROVE  AnnouncedIn(feesProposed', raffles'[a].fee, raffles'[a].at)
  BY DEF FeesAnnounced, AnnouncedIn
<1>g. feesProposed \subseteq feesProposed'
  BY HistoryGrows
<1>1. CASE a \in DOMAIN raffles /\ raffles'[a] = raffles[a]
  <2>1. AnnouncedIn(feesProposed, raffles[a].fee, raffles[a].at) /\ raffles[a].at \in Nat
    BY <1>1 DEF FeeInv, FeesAnnounced, AnnouncedIn, TypeInv, RegistryType, Raffle
  <2>2. AnnouncedIn(feesProposed', raffles[a].fee, raffles[a].at)
    BY <1>g, <2>1, AnnouncedStays
  <2> QED BY <1>1, <2>2
<1>2. ASSUME NEW c \in Creators, NEW d \in Descriptions, CreateRaffle(c, d),
             ~(a \in DOMAIN raffles /\ raffles'[a] = raffles[a])
      PROVE  AnnouncedIn(feesProposed', raffles'[a].fee, raffles'[a].at)
  <2>1. raffles'[a].fee = config.fee /\ raffles'[a].at = now
    BY <1>2 DEF CreateRaffle, CreateRaffleInternal
  <2>2. AnnouncedIn(feesProposed, config.fee, now) /\ now \in Nat
    BY <2>1 DEF FeeInv, FeesTracked, TypeInv
  <2>3. AnnouncedIn(feesProposed', config.fee, now)
    BY <1>g, <2>2, AnnouncedStays
  <2> QED BY <2>1, <2>3
<1>3. CASE UNCHANGED registryVars
  BY <1>1, <1>3 DEF registryVars
<1>4. ASSUME NEW i \in DOMAIN schedules, TriggerNextRound(i)
      PROVE  a \in DOMAIN raffles /\ raffles'[a] = raffles[a]
  BY <1>4 DEF TriggerNextRound, CreateRaffleInternal
<1> QED BY <1>1, <1>2, <1>3, <1>4, RaffleSteps

\* Nobody who reads the pending operations is surprised by a fee: a raffle made
\* with create_raffle has the fee of init_factory or one that propose_fee_change
\* had announced for the whole timelock when the raffle was made.
THEOREM FeesWereAnnounced == Spec => []FeesAnnounced
<1>1. TypeInv /\ FeeInv /\ [Next]_vars => FeeInv'
  BY TrackedNext, FeesNext DEF FeeInv
<1>2. FeeInv => FeesAnnounced
  BY DEF FeeInv
<1> QED BY <1>1, <1>2, FeeInit, TypeAlways, PTL DEF Spec

-----------------------------------------------------------------------------
(* The timelock.                                                            *)

\* The announcement that a pending operation stands for.
Announcement(op) == [id |-> op.id, key |-> op.key, value |-> op.value,
                     at |-> op.due - TimelockDelay]

Announcements(O) == {Announcement(op) : op \in O}

\* Two operations never stand for the same announcement.
LEMMA AnnouncementTells ==
    ASSUME NEW o \in Op, NEW q \in Op, Announcement(o) = Announcement(q)
    PROVE  o = q
<1>1. o.id = q.id /\ o.key = q.key /\ o.value = q.value
      /\ o.due - TimelockDelay = q.due - TimelockDelay
  BY DEF Announcement
<1>2. o.due \in Nat /\ q.due \in Nat /\ TimelockDelay \in Nat
  BY FactoryAssumption DEF Op
<1>3. o.due = q.due
  BY <1>1, <1>2
<1>4. o = [id |-> o.id, key |-> o.key, value |-> o.value, due |-> o.due]
  BY DEF Op
<1>5. q = [id |-> q.id, key |-> q.key, value |-> q.value, due |-> q.due]
  BY DEF Op
<1> QED BY <1>1, <1>3, <1>4, <1>5

LEMMA RemoveAnnouncement ==
    ASSUME NEW O \in SUBSET Op, NEW op \in O
    PROVE  Announcements(O \ {op}) = Announcements(O) \ {Announcement(op)}
  BY AnnouncementTells, Zenon DEF Announcements

LEMMA AddAnnouncement ==
    ASSUME NEW O, NEW op
    PROVE  Announcements(O \cup {op}) = Announcements(O) \cup {Announcement(op)}
  BY Zenon DEF Announcements

\* The announcements of the abstract timelock are those of the pending operations.
LEMMA Mapped ==
    /\ TL!TLInit <=> Announcements(pendingOps) = {} /\ opCounter = 0
    /\ TL!Announce <=>
          /\ opCounter' = opCounter + 1
          /\ \E a \in Announcements(pendingOps') :
                /\ Announcements(pendingOps') = Announcements(pendingOps) \cup {a}
                /\ a.id = opCounter'
                /\ a.at = now
          /\ UNCHANGED <<now, config>>
    /\ TL!WithdrawAnnouncement <=>
          /\ \E a \in Announcements(pendingOps) :
                Announcements(pendingOps') = Announcements(pendingOps) \ {a}
          /\ UNCHANGED <<now, config, opCounter>>
    /\ TL!TakeEffect <=>
          /\ \E a \in Announcements(pendingOps) :
                /\ now >= a.at + TimelockDelay
                /\ Announcements(pendingOps') = Announcements(pendingOps) \ {a}
                /\ config' = [k \in DOMAIN config |->
                                 IF k = a.key THEN a.value ELSE config[k]]
          /\ UNCHANGED <<now, opCounter>>
    /\ TL!Elapse <=>
          /\ now' > now
          /\ Announcements(pendingOps') = Announcements(pendingOps)
          /\ UNCHANGED <<config, opCounter>>
    /\ UNCHANGED <<now, config, pendingOps, opCounter>> => UNCHANGED TL!tlVars
  BY DEF Announcements, Announcement, TL!TLInit, TL!Announce, TL!WithdrawAnnouncement,
         TL!TakeEffect, TL!Elapse, TL!tlVars

LEMMA TimelockStep == TypeInv /\ [Next]_vars => [TL!TLNext]_TL!tlVars
<1> SUFFICES ASSUME TypeInv, [Next]_vars PROVE TL!TLNext \/ UNCHANGED TL!tlVars
  OBVIOUS
<1>n. now \in Nat /\ TimelockDelay \in Nat /\ pendingOps \in SUBSET Op
  BY FactoryAssumption DEF TypeInv, OpsType
<1>1. CASE UNCHANGED configVars /\ UNCHANGED now
  BY <1>1, Mapped DEF configVars
<1>2. CASE Tick
  <2>1. TL!Elapse
    BY <1>n, <1>2, Mapped DEF Tick, configVars
  <2> QED BY <2>1 DEF TL!TLNext
<1>3. CASE Proposal /\ UNCHANGED now
  <2>1. PICK key \in {"fee", "wasm"} \cup AddressKeys : \E value : Propose(key, value)
    BY <1>3, ProposalSteps
  <2>2. PICK value : Propose(key, value)
    BY <2>1
  <2> DEFINE new == [id |-> opCounter + 1, key |-> key, value |-> value, due |-> Due]
  <2>3. /\ pendingOps' = pendingOps \cup {new}
        /\ opCounter' = opCounter + 1
        /\ config' = config
    BY <2>2 DEF Propose
  <2>4. Announcement(new).id = opCounter + 1 /\ Announcement(new).at = now
    BY <1>n DEF Announcement, Due
  <2> HIDE DEF new
  <2>5. Announcements(pendingOps') = Announcements(pendingOps) \cup {Announcement(new)}
    BY <2>3, AddAnnouncement
  <2>6. TL!Announce
    BY <1>3, <2>3, <2>4, <2>5, Mapped
  <2> QED BY <2>6 DEF TL!TLNext
<1>4. ASSUME NEW op \in pendingOps, CancelConfigChange(op)
      PROVE  TL!TLNext
  <2>1. Announcements(pendingOps') = Announcements(pendingOps) \ {Announcement(op)}
    BY <1>n, <1>4, RemoveAnnouncement DEF CancelConfigChange, RemoveOp
  <2>2. Announcement(op) \in Announcements(pendingOps)
    BY DEF Announcements
  <2>3. UNCHANGED <<now, config, opCounter>>
    BY <1>4 DEF CancelConfigChange
  <2>4. TL!WithdrawAnnouncement
    BY <2>1, <2>2, <2>3, Mapped
  <2> QED BY <2>4 DEF TL!TLNext
<1>5. ASSUME NEW op \in pendingOps, ExecuteConfigChange(op)
      PROVE  TL!TLNext
  <2>1. Announcements(pendingOps') = Announcements(pendingOps) \ {Announcement(op)}
    BY <1>n, <1>5, RemoveAnnouncement DEF ExecuteConfigChange, RemoveOp
  <2>2. Announcement(op) \in Announcements(pendingOps)
    BY DEF Announcements
  <2>3. UNCHANGED <<now, opCounter>>
    BY <1>5 DEF ExecuteConfigChange
  <2>4. now >= Announcement(op).at + TimelockDelay
    <3>1. op.due \in Nat /\ Announcement(op).at = op.due - TimelockDelay
      BY <1>n DEF Op, Announcement
    <3>2. now >= op.due
      BY <1>5 DEF ExecuteConfigChange
    <3> QED BY <1>n, <3>1, <3>2
  <2>5. config' = [k \in DOMAIN config |->
                      IF k = Announcement(op).key THEN Announcement(op).value ELSE config[k]]
    <3>1. Announcement(op).key = op.key /\ Announcement(op).value = op.value
      BY DEF Announcement
    <3>2. DOMAIN config = ConfigKeys
      BY DEF TypeInv, ConfigType
    <3>3. config' = [k \in ConfigKeys |-> IF k = op.key THEN op.value ELSE config[k]]
      BY <1>5 DEF ExecuteConfigChange
    <3> QED BY <3>1, <3>2, <3>3
  <2>6. TL!TakeEffect
    BY <2>1, <2>2, <2>3, <2>4, <2>5, Mapped
  <2> QED BY <2>6 DEF TL!TLNext
<1>6. now' = now \/ Tick
  BY ClockSteps
<1> QED BY <1>1, <1>2, <1>3, <1>4, <1>5, <1>6, ConfigSteps

\* The factory implements the timelock: fee, treasury and code hash change only
\* as announced, once, not before the delay has passed and never after a
\* cancellation, whichever proposals are open at the same time
\* (set_config, propose_*, execute_config_change, cancel_config_change).
THEOREM FactoryKeepsTimelock == Spec => TimelockKept
<1>1. Init => TL!TLInit
  BY Mapped DEF Init, Announcements
<1> QED BY <1>1, TimelockStep, TypeAlways, PTL DEF Spec, TimelockKept, TL!TLSpec

-----------------------------------------------------------------------------
(* Division: what the next raffle does to the number of full intervals.     *)

LEMMA DivDef ==
    ASSUME NEW C \in Nat \ {0}, NEW n \in Nat
    PROVE  /\ n \div C \in Nat /\ n % C \in Nat /\ n % C < C
           /\ n = C * (n \div C) + (n % C)
  OBVIOUS

LEMMA TimesGrows ==
    ASSUME NEW C \in Nat, NEW x \in Nat, NEW y \in Nat, x < y
    PROVE  C * x + C <= C * y
<1>1. y = x + 1 + (y - x - 1) /\ y - x - 1 \in Nat
  OBVIOUS
<1>2. C * y = C * x + C + C * (y - x - 1)
  BY <1>1
<1>3. C * (y - x - 1) \in Nat
  BY <1>1
<1> QED BY <1>2, <1>3

LEMMA DivUnique ==
    ASSUME NEW C \in Nat \ {0}, NEW q \in Nat, NEW r \in Nat, NEW a \in Nat, NEW b \in Nat,
           r < C, b < C, C * q + r = C * a + b
    PROVE  q = a /\ r = b
<1> DEFINE u == C * q
<1> DEFINE v == C * a
<1>1. q < a => u + C <= v
  BY TimesGrows
<1>2. a < q => v + C <= u
  BY TimesGrows
<1>3. u \in Nat /\ v \in Nat /\ u + r = v + b
  OBVIOUS
<1>4. ~(q < a) /\ ~(a < q)
  <2> HIDE DEF u, v
  <2> QED BY <1>1, <1>2, <1>3
<1> QED BY <1>4

LEMMA DivStep ==
    ASSUME NEW C \in Nat \ {0}, NEW n \in Nat
    PROVE  /\ (n + 1) % C = 0 => /\ (n + 1) \div C = (n \div C) + 1
                                 /\ n + 1 = C * ((n \div C) + 1)
           /\ (n + 1) % C # 0 => (n + 1) \div C = n \div C
<1> DEFINE q == n \div C
<1> DEFINE r == n % C
<1> DEFINE a == (n + 1) \div C
<1> DEFINE b == (n + 1) % C
<1>1. q \in Nat /\ r \in Nat /\ r < C /\ n = C * q + r
  BY DivDef
<1>2. a \in Nat /\ b \in Nat /\ b < C /\ n + 1 = C * a + b
  <2>1. n + 1 \in Nat
    OBVIOUS
  <2> QED BY <2>1, DivDef
<1> HIDE DEF q, r, a, b
<1>3. CASE r + 1 < C
  <2>1. C * q + (r + 1) = C * a + b /\ r + 1 \in Nat
    BY <1>1, <1>2
  <2>2. q = a /\ r + 1 = b
    BY <1>1, <1>2, <1>3, <2>1, DivUnique
  <2>3. b # 0
    BY <1>1, <2>2
  <2> QED BY <2>2, <2>3 DEF q, a, b
<1>4. CASE ~(r + 1 < C)
  <2>1. r + 1 = C
    BY <1>1, <1>4
  <2>2. C * (q + 1) + 0 = C * a + b /\ q + 1 \in Nat /\ 0 < C
    BY <1>1, <1>2, <2>1
  <2>3. q + 1 = a /\ 0 = b
    BY <1>1, <1>2, <2>2, DivUnique
  <2>4. n + 1 = C * (q + 1)
    BY <1>1, <2>1
  <2> QED BY <2>3, <2>4 DEF q, a, b
<1> QED BY <1>3, <1>4

\* A multiple of C up to the last full interval is a raffle's number.
LEMMA MultipleWithin ==
    ASSUME NEW C \in Nat \ {0}, NEW n \in Nat, NEW k \in 1..(n \div C)
    PROVE  k * C \in 1..n
<1> DEFINE q == n \div C
<1>1. q \in Nat /\ C * q <= n /\ C * q \in Nat
  BY DivDef
<1> HIDE DEF q
<1>2. k \in Nat /\ k * C = C * k /\ C * k \in Nat /\ k >= 1 /\ k <= q
  BY <1>1 DEF q
<1>3. C * k <= C * q
  <2>1. CASE k = q
    BY <1>1, <2>1
  <2>2. CASE k < q
    <3>1. C * k + C <= C * q
      BY <1>1, <1>2, <2>2, TimesGrows
    <3> QED BY <1>1, <1>2, <3>1
  <2> QED BY <1>1, <1>2, <2>1, <2>2
<1>4. C * k >= 1
  BY <1>2
<1> QED BY <1>1, <1>2, <1>3, <1>4

-----------------------------------------------------------------------------
(* Ranks and indexes, of any sequence.                                      *)

RankIn(r, i, S) == Cardinality({j \in 1..i : r[j] \in S})

ListsIn(r, index, S) ==
    /\ Len(index) = RankIn(r, Len(r), S)
    /\ \A i \in DOMAIN r : r[i] \in S => index[RankIn(r, i, S)] = r[i]

LEMMA ListsSame ==
    ASSUME NEW index, NEW S
    PROVE  Lists(index, S) <=> ListsIn(registry, index, S)
  BY DEF Lists, ListsIn, Rank, RankIn

LEMMA RankBounds ==
    ASSUME NEW r, NEW n \in Nat, NEW i \in 0..n, NEW S
    PROVE  /\ RankIn(r, i, S) \in Nat
           /\ RankIn(r, i, S) <= RankIn(r, n, S)
           /\ i # 0 /\ r[i] \in S => RankIn(r, i, S) >= 1
<1> DEFINE A == {j \in 1..i : r[j] \in S}
<1> DEFINE B == {j \in 1..n : r[j] \in S}
<1>1. IsFiniteSet(1..n)
  <2>1. 1 \in Int /\ n \in Int
    OBVIOUS
  <2> QED BY <2>1, FS_Interval
<1>2. B \in SUBSET (1..n) /\ A \in SUBSET B
  OBVIOUS
<1>3. IsFiniteSet(B)
  BY <1>1, <1>2, FS_Subset
<1>4. IsFiniteSet(A) /\ Cardinality(A) <= Cardinality(B)
  BY <1>2, <1>3, FS_Subset
<1>5. Cardinality(A) \in Nat
  BY <1>4, FS_CardinalityType
<1>6. i # 0 /\ r[i] \in S => A # {}
  <2> SUFFICES ASSUME i # 0, r[i] \in S PROVE i \in A
    OBVIOUS
  <2> QED OBVIOUS
<1> HIDE DEF A, B
<1>7. A # {} => Cardinality(A) # 0
  BY <1>4, FS_EmptySet
<1>8. A # {} => Cardinality(A) >= 1
  BY <1>5, <1>7
<1> QED BY <1>4, <1>5, <1>6, <1>8 DEF RankIn, A, B

\* The rank of an appended element.
LEMMA RankAppend ==
    ASSUME NEW T, NEW r \in Seq(T), NEW x \in T, NEW S
    PROVE  /\ \A i \in 0..Len(r) : RankIn(Append(r, x), i, S) = RankIn(r, i, S)
           /\ RankIn(Append(r, x), Len(r) + 1, S)
              = IF x \in S THEN RankIn(r, Len(r), S) + 1 ELSE RankIn(r, Len(r), S)
<1> DEFINE n == Len(r)
<1> DEFINE s == Append(r, x)
<1>1. n \in Nat /\ \A j \in 1..n : s[j] = r[j]
  BY AppendProperties, LenProperties
<1>2. s[n + 1] = x
  BY AppendProperties
<1> HIDE DEF n, s
<1>3. \A i \in 0..n : RankIn(s, i, S) = RankIn(r, i, S)
  <2> SUFFICES ASSUME NEW i \in 0..n PROVE RankIn(s, i, S) = RankIn(r, i, S)
    OBVIOUS
  <2>1. {j \in 1..i : s[j] \in S} = {j \in 1..i : r[j] \in S}
    BY <1>1
  <2> QED BY <2>1 DEF RankIn
<1> DEFINE A == {j \in 1..n : r[j] \in S}
<1> DEFINE B == {j \in 1..(n + 1) : s[j] \in S}
<1>4. IsFiniteSet(A) /\ n + 1 \notin A
  <2>1. 1 \in Int /\ n \in Int /\ A \in SUBSET (1..n)
    BY <1>1
  <2>2. IsFiniteSet(1..n)
    BY <2>1, FS_Interval
  <2>3. IsFiniteSet(A)
    BY <2>1, <2>2, FS_Subset
  <2> QED BY <1>1, <2>3
<1>5. CASE x \in S
  <2>1. B = A \cup {n + 1}
    BY <1>1, <1>2, <1>5
  <2>2. Cardinality(B) = Cardinality(A) + 1
    <3> HIDE DEF A, B
    <3> QED BY <1>4, <2>1, FS_AddElement
  <2> QED BY <1>3, <1>5, <2>2 DEF RankIn, n, s
<1>6. CASE x \notin S
  <2>1. B = A
    BY <1>1, <1>2, <1>6
  <2> QED BY <1>3, <1>6, <2>1 DEF RankIn, n, s
<1> QED BY <1>5, <1>6

\* An index to which the new raffle is appended, if it belongs there, lists the
\* longer registry.
LEMMA AppendListed ==
    ASSUME NEW T, NEW r \in Seq(T), NEW x \in T, NEW S, NEW index \in Seq(T),
           ListsIn(r, index, S)
    PROVE  ListsIn(Append(r, x), IF x \in S THEN Append(index, x) ELSE index, S)
<1> DEFINE n == Len(r)
<1> DEFINE s == Append(r, x)
<1> DEFINE new == IF x \in S THEN Append(index, x) ELSE index
<1>1. n \in Nat /\ Len(s) = n + 1 /\ DOMAIN s = 1..(n + 1) /\ DOMAIN r = 1..n
  BY AppendProperties, LenProperties
<1>2. s[n + 1] = x /\ \A j \in 1..n : s[j] = r[j]
  BY AppendProperties
<1>3. Len(index) \in Nat
  BY LenProperties
<1>a. /\ Len(Append(index, x)) = Len(index) + 1
      /\ \A i \in 1..Len(index) : Append(index, x)[i] = index[i]
      /\ Append(index, x)[Len(index) + 1] = x
  BY AppendProperties
<1>4. Len(index) = RankIn(r, n, S) /\ \A i \in 1..n : r[i] \in S => index[RankIn(r, i, S)] = r[i]
  BY <1>1 DEF ListsIn
<1>5. /\ \A i \in 0..n : RankIn(s, i, S) = RankIn(r, i, S)
      /\ RankIn(s, n + 1, S) = IF x \in S THEN RankIn(r, n, S) + 1 ELSE RankIn(r, n, S)
  BY RankAppend
<1> HIDE DEF n, s
<1>6. Len(new) = RankIn(s, n + 1, S)
  BY <1>a, <1>4, <1>5
<1>7. ASSUME NEW i \in 1..(n + 1), s[i] \in S
      PROVE  new[RankIn(s, i, S)] = s[i]
  <2>1. CASE i = n + 1
    <3>1. x \in S /\ s[i] = x
      BY <1>2, <1>7, <2>1
    <3>2. RankIn(s, i, S) = Len(index) + 1
      BY <1>4, <1>5, <2>1, <3>1
    <3> QED BY <1>a, <3>1, <3>2
  <2>2. CASE i # n + 1
    <3>1. i \in 1..n /\ i \in 0..n /\ i # 0
      BY <1>1, <2>2
    <3>2. s[i] = r[i] /\ RankIn(s, i, S) = RankIn(r, i, S) /\ r[i] \in S
      BY <1>2, <1>5, <1>7, <3>1
    <3>3. RankIn(r, i, S) \in 1..Len(index)
      <4>1. RankIn(r, i, S) \in Nat /\ RankIn(r, i, S) <= RankIn(r, n, S)
            /\ RankIn(r, i, S) >= 1
        BY <1>1, <3>1, <3>2, RankBounds
      <4> QED BY <1>3, <1>4, <4>1
    <3>4. new[RankIn(r, i, S)] = index[RankIn(r, i, S)]
      BY <1>a, <3>3
    <3>5. index[RankIn(r, i, S)] = r[i]
      BY <1>4, <3>1, <3>2
    <3> QED BY <3>2, <3>4, <3>5
  <2> QED BY <2>1, <2>2
<1>8. ListsIn(s, new, S)
  <2> HIDE DEF new
  <2> QED BY <1>1, <1>6, <1>7 DEF ListsIn
<1> QED BY <1>8 DEF s

-----------------------------------------------------------------------------
(* The registry.                                                            *)

\* The inductive invariant: the indexes agree and the raffles are finitely many.
RegistryInv == RegistryAgrees /\ IsFiniteSet(DOMAIN raffles)

LEMMA RegistryInit == Init => RegistryInv
<1> SUFFICES ASSUME Init PROVE RegistryInv
  OBVIOUS
<1>0. registry = << >> /\ raffles = << >> /\ totalCreated = 0 /\ schedules = << >>
      /\ checkpoints = << >> /\ categoryRaffles = << >>
      /\ \A c \in Creators : creatorRaffles[c] = << >>
  BY DEF Init
<1>d. DOMAIN registry = {} /\ DOMAIN raffles = {} /\ DOMAIN schedules = {}
      /\ DOMAIN checkpoints = {} /\ Len(registry) = 0 /\ Len(checkpoints) = 0
  BY <1>0
<1>1. IsFiniteSet(DOMAIN raffles) /\ Cardinality(DOMAIN raffles) = 0
  BY <1>d, FS_EmptySet
<1>2. StableIds
  BY <1>0, <1>d, <1>1 DEF StableIds
<1>3. ASSUME NEW S PROVE Lists(<< >>, S)
  <2>1. {j \in 1..0 : registry[j] \in S} = {}
    OBVIOUS
  <2>2. Rank(0, S) = 0
    BY <2>1, FS_EmptySet DEF Rank
  <2> QED BY <1>d, <2>2 DEF Lists
<1>4. IndexesAgree
  BY <1>0, <1>3 DEF IndexesAgree
<1>5. RoundsRegistered
  BY <1>d DEF RoundsRegistered
<1>6. CheckpointsAgree
  <2>1. CheckpointInterval \in Nat \ {0}
    BY FactoryAssumption
  <2>2. 0 \div CheckpointInterval = 0
    BY <2>1
  <2> QED BY <1>0, <1>d, <2>2 DEF CheckpointsAgree
<1> QED BY <1>1, <1>2, <1>4, <1>5, <1>6 DEF RegistryInv, RegistryAgrees

\* Deploying one more raffle keeps stable ids, indexes and checkpoints in step.
LEMMA CreatedAgrees ==
    ASSUME TypeInv, RegistryInv, NEW c \in Creators, NEW d \in Descriptions,
           NEW fee, NEW kind, CreateRaffleInternal(c, d, fee, kind), UNCHANGED now
    PROVE  StableIds' /\ IsFiniteSet(DOMAIN raffles') /\ IndexesAgree' /\ CheckpointsAgree'
<1> DEFINE x == <<c, d>>
<1> DEFINE n == Len(registry)
<1> DEFINE C == CheckpointInterval
<1>x. x \in Address
  BY DEF Address
<1>r. registry \in Seq(Address) /\ totalCreated \in Nat /\ n \in Nat /\ DOMAIN registry = 1..n
  <2>1. registry \in Seq(Address) /\ totalCreated \in Nat
    BY FactoryAssumption DEF TypeInv, RegistryType
  <2> QED BY <2>1, LenProperties
<1>t. totalCreated = n
  BY DEF RegistryInv, RegistryAgrees, StableIds
<1>a. registry' = Append(registry, x) /\ totalCreated' = totalCreated + 1
  BY DEF CreateRaffleInternal
<1>b. /\ Len(registry') = n + 1
      /\ registry'[n + 1] = x
      /\ \A i \in 1..n : registry'[i] = registry[i]
      /\ DOMAIN registry' = 1..(n + 1)
  BY <1>x, <1>r, <1>a, AppendProperties, LenProperties
<1>d. /\ DOMAIN raffles' = DOMAIN raffles \cup {x}
      /\ x \notin DOMAIN raffles
      /\ raffles'[x].at = now
      /\ \A a \in DOMAIN raffles : raffles'[a] = raffles[a]
  BY DEF CreateRaffleInternal, AddressFree
<1> HIDE DEF x, n
<1>1. IsFiniteSet(DOMAIN raffles') /\ Cardinality(DOMAIN raffles') = Cardinality(DOMAIN raffles) + 1
  <2>1. IsFiniteSet(DOMAIN raffles)
    BY DEF RegistryInv
  <2> QED BY <1>d, <2>1, FS_AddElement
<1>2. StableIds'
  <2>1. {registry[i] : i \in 1..n} = DOMAIN raffles /\ Cardinality(DOMAIN raffles) = totalCreated
    BY <1>r DEF RegistryInv, RegistryAgrees, StableIds
  <2>2. {registry'[i] : i \in 1..(n + 1)} = {registry[i] : i \in 1..n} \cup {x}
    <3>1. 1..(n + 1) = (1..n) \cup {n + 1}
      BY <1>r
    <3>2. ASSUME NEW y \in {registry'[i] : i \in 1..(n + 1)}
          PROVE  y \in {registry[i] : i \in 1..n} \cup {x}
      BY <1>b, <3>1
    <3>3. ASSUME NEW y \in {registry[i] : i \in 1..n} \cup {x}
          PROVE  y \in {registry'[i] : i \in 1..(n + 1)}
      BY <1>b, <3>1
    <3> QED BY <3>2, <3>3
  <2>3. {registry'[i] : i \in DOMAIN registry'} = DOMAIN raffles'
    BY <1>b, <1>d, <2>1, <2>2
  <2>4. Len(registry') = totalCreated' /\ Cardinality(DOMAIN raffles') = totalCreated'
    BY <1>a, <1>b, <1>t, <1>1, <2>1
  <2> QED BY <2>3, <2>4 DEF StableIds
<1>3. ASSUME NEW e \in Creators
      PROVE  Lists(creatorRaffles[e], {e} \X Descriptions)'
  <2> DEFINE S == {e} \X Descriptions
  <2>1. creatorRaffles \in [Creators -> Seq(Address)]
    BY DEF TypeInv, IndexType
  <2>2. creatorRaffles'[e] = IF x \in S THEN Append(creatorRaffles[e], x) ELSE creatorRaffles[e]
    BY <2>1 DEF CreateRaffleInternal, Indexed, x
  <2>3. ListsIn(registry, creatorRaffles[e], S)
    BY ListsSame DEF RegistryInv, RegistryAgrees, IndexesAgree
  <2> HIDE DEF S
  <2>4. ListsIn(registry', creatorRaffles'[e], S)
    BY <1>x, <1>r, <1>a, <2>1, <2>2, <2>3, AppendListed
  <2> QED BY <2>4 DEF S, Lists, ListsIn, Rank, RankIn
<1>4. Lists(categoryRaffles, Creators \X Categorised)'
  <2> DEFINE S == Creators \X Categorised
  <2>1. categoryRaffles \in Seq(Address)
    BY DEF TypeInv, IndexType
  <2>2. categoryRaffles' = IF x \in S THEN Append(categoryRaffles, x) ELSE categoryRaffles
    BY DEF CreateRaffleInternal, Indexed, x
  <2>3. ListsIn(registry, categoryRaffles, S)
    BY ListsSame DEF RegistryInv, RegistryAgrees, IndexesAgree
  <2> HIDE DEF S
  <2>4. ListsIn(registry', categoryRaffles', S)
    BY <1>x, <1>r, <1>a, <2>1, <2>2, <2>3, AppendListed
  <2> QED BY <2>4 DEF S, Lists, ListsIn, Rank, RankIn
<1>5. IndexesAgree'
  BY <1>3, <1>4 DEF IndexesAgree
<1>6. CheckpointsAgree'
  <2> DEFINE q == n \div C
  <2>c. C \in Nat \ {0}
    BY FactoryAssumption
  <2>q. q \in Nat
    BY <1>r, <2>c, DivDef
  <2>h. checkpoints \in Seq([count : Nat, at : Nat]) /\ DOMAIN checkpoints = 1..Len(checkpoints)
    <3>1. checkpoints \in Seq([count : Nat, at : Nat])
      BY DEF TypeInv, IndexType
    <3> QED BY <3>1, LenProperties
  <2>1. Len(checkpoints) = q
    BY <1>t DEF RegistryInv, RegistryAgrees, CheckpointsAgree
  <2>2. \A k \in 1..q : /\ checkpoints[k].count = k * C
                        /\ checkpoints[k].at = raffles'[registry'[k * C]].at
    <3> SUFFICES ASSUME NEW k \in 1..q
                 PROVE  /\ checkpoints[k].count = k * C
                        /\ checkpoints[k].at = raffles'[registry'[k * C]].at
      OBVIOUS
    <3>1. checkpoints[k].count = k * C /\ checkpoints[k].at = raffles[registry[k * C]].at
      BY <2>1, <2>h DEF RegistryInv, RegistryAgrees, CheckpointsAgree
    <3>2. k * C \in 1..n
      BY <1>r, <2>c, MultipleWithin
    <3>3. registry'[k * C] = registry[k * C]
      BY <1>b, <3>2
    <3>4. registry[k * C] \in DOMAIN raffles
      BY <1>r, <3>2 DEF RegistryInv, RegistryAgrees, StableIds
    <3> QED BY <1>d, <3>1, <3>3, <3>4
  <2>3. MaybeCreateCheckpoint(n + 1)
    BY <1>t DEF CreateRaffleInternal
  <2>4. CASE (n + 1) % C = 0
    <3>1. (n + 1) \div C = q + 1 /\ n + 1 = C * (q + 1)
      BY <1>r, <2>c, <2>4, DivStep
    <3> DEFINE e == [count |-> n + 1, at |-> now]
    <3>2. checkpoints' = Append(checkpoints, e)
      BY <2>3, <2>4 DEF MaybeCreateCheckpoint
    <3>3. e \in [count : Nat, at : Nat]
      BY <1>r DEF TypeInv
    <3>e. e.count = n + 1 /\ e.at = now
      OBVIOUS
    <3> HIDE DEF e, q
    <3>4. /\ Len(checkpoints') = q + 1
          /\ checkpoints'[q + 1] = e
          /\ \A k \in 1..q : checkpoints'[k] = checkpoints[k]
          /\ DOMAIN checkpoints' = 1..(q + 1)
      BY <2>1, <2>h, <3>2, <3>3, AppendProperties, LenProperties
    <3>5. (q + 1) * C = n + 1
      BY <2>c, <2>q, <3>1
    <3>6. ASSUME NEW k \in 1..(q + 1)
          PROVE  /\ checkpoints'[k].count = k * C
                 /\ checkpoints'[k].at = raffles'[registry'[k * C]].at
      <4>1. CASE k = q + 1
        BY <1>b, <1>d, <3>4, <3>5, <3>e, <4>1
      <4>2. CASE k # q + 1
        <5>1. k \in 1..q
          BY <2>q, <4>2
        <5> QED BY <2>2, <3>4, <5>1
      <4> QED BY <4>1, <4>2
    <3>7. Len(checkpoints') = totalCreated' \div C
      BY <1>a, <1>t, <3>1, <3>4
    <3> QED BY <3>4, <3>6, <3>7 DEF CheckpointsAgree
  <2>5. CASE (n + 1) % C # 0
    <3>1. (n + 1) \div C = q
      BY <1>r, <2>c, <2>5, DivStep
    <3>2. checkpoints' = checkpoints
      BY <2>3, <2>5 DEF MaybeCreateCheckpoint
    <3>3. Len(checkpoints') = totalCreated' \div C
      BY <1>a, <1>t, <2>1, <3>1, <3>2
    <3> HIDE DEF q
    <3> QED BY <2>1, <2>2, <2>h, <3>2, <3>3 DEF CheckpointsAgree
  <2> QED BY <2>4, <2>5
<1> QED BY <1>1, <1>2, <1>5, <1>6

\* Rounds that are registered stay registered when another raffle is deployed.
LEMMA RoundsStay ==
    ASSUME TypeInv, RegistryInv, NEW c \in Creators, NEW d \in Descriptions,
           NEW fee, NEW kind, CreateRaffleInternal(c, d, fee, kind),
           NEW i \in DOMAIN schedules
    PROVE  LET s == schedules[i] IN
           /\ s.round = Len(s.instances)
           /\ \A k \in DOMAIN s.instances :
                 /\ s.instances[k] \in DOMAIN raffles'
                 /\ raffles'[s.instances[k]].kind = "round"
<1> DEFINE s == schedules[i]
<1>1. \A a \in DOMAIN raffles : a \in DOMAIN raffles' /\ raffles'[a] = raffles[a]
  BY DEF CreateRaffleInternal, AddressFree
<1>2. /\ s.round = Len(s.instances)
      /\ \A k \in DOMAIN s.instances :
            s.instances[k] \in DOMAIN raffles /\ raffles[s.instances[k]].kind = "round"
  BY DEF RegistryInv, RegistryAgrees, RoundsRegistered
<1> QED BY <1>1, <1>2

LEMMA TriggerRegisters ==
    ASSUME TypeInv, RegistryInv, NEW i \in DOMAIN schedules, TriggerNextRound(i)
    PROVE  RoundsRegistered'
<1> DEFINE s == schedules[i]
<1>s. s \in Schedule /\ s.creator \in Creators /\ s.description \in Descriptions
      /\ s.instances \in Seq(Address) /\ s.round \in Nat
  BY ScheduleOf DEF Schedule
<1> DEFINE x == <<s.creator, s.description>>
<1>x. x \in Address
  BY <1>s DEF Address
<1>1. CreateRaffleInternal(s.creator, s.description, s.fee, "round")
  BY DEF TriggerNextRound
<1>2. schedules' = [schedules EXCEPT ![i] = NextRound(s)]
  BY TriggerReplaces
<1>3. NextRound(s) \in Schedule /\ NextRound(s).round = s.round + 1
      /\ NextRound(s).instances = Append(s.instances, x)
  BY <1>s, NextRoundType
<1>4. /\ DOMAIN schedules' = DOMAIN schedules
      /\ schedules'[i] = NextRound(s)
      /\ \A j \in DOMAIN schedules : j # i => schedules'[j] = schedules[j]
  <2>1. schedules \in Seq(Schedule)
    BY DEF TypeInv, IndexType
  <2> HIDE DEF s
  <2> QED BY <1>2, <1>3, <2>1, ReplaceType
<1>5. x \in DOMAIN raffles' /\ raffles'[x].kind = "round"
  BY <1>1 DEF CreateRaffleInternal
<1> HIDE DEF x
<1>6. ASSUME NEW j \in DOMAIN schedules, j # i
      PROVE  /\ schedules'[j].round = Len(schedules'[j].instances)
             /\ \A k \in DOMAIN schedules'[j].instances :
                   /\ schedules'[j].instances[k] \in DOMAIN raffles'
                   /\ raffles'[schedules'[j].instances[k]].kind = "round"
  BY <1>s, <1>1, <1>4, <1>6, RoundsStay
<1>7. /\ s.round = Len(s.instances)
      /\ \A k \in DOMAIN s.instances : s.instances[k] \in DOMAIN raffles'
                                       /\ raffles'[s.instances[k]].kind = "round"
  BY <1>s, <1>1, RoundsStay
<1>8. /\ schedules'[i].round = Len(schedules'[i].instances)
      /\ \A k \in DOMAIN schedules'[i].instances :
            /\ schedules'[i].instances[k] \in DOMAIN raffles'
            /\ raffles'[schedules'[i].instances[k]].kind = "round"
  <2> DEFINE t == s.instances
  <2> DEFINE u == Append(t, x)
  <2>1. t \in Seq(Address)
    BY <1>s
  <2> HIDE DEF t
  <2>2. /\ Len(u) = Len(t) + 1 /\ DOMAIN u = 1..(Len(t) + 1) /\ Len(t) \in Nat
        /\ DOMAIN t = 1..Len(t)
        /\ u[Len(t) + 1] = x /\ \A k \in 1..Len(t) : u[k] = t[k]
    BY <1>x, <2>1, AppendProperties, LenProperties
  <2> HIDE DEF u
  <2>3. ASSUME NEW k \in DOMAIN u
        PROVE  u[k] \in DOMAIN raffles' /\ raffles'[u[k]].kind = "round"
    <3>1. CASE k = Len(t) + 1
      BY <1>5, <2>2, <3>1
    <3>2. CASE k # Len(t) + 1
      <4>1. k \in 1..Len(t)
        BY <2>2, <3>2
      <4> QED BY <1>7, <2>2, <4>1 DEF t
    <3> QED BY <3>1, <3>2
  <2>4. schedules'[i].instances = u /\ schedules'[i].round = s.round + 1
    BY <1>3, <1>4 DEF t, u
  <2>5. s.round = Len(t)
    BY <1>7 DEF t
  <2> QED BY <2>2, <2>3, <2>4, <2>5
<1>9. \A j \in DOMAIN schedules' :
         /\ schedules'[j].round = Len(schedules'[j].instances)
         /\ \A k \in DOMAIN schedules'[j].instances :
               /\ schedules'[j].instances[k] \in DOMAIN raffles'
               /\ raffles'[schedules'[j].instances[k]].kind = "round"
  BY <1>4, <1>6, <1>8
<1> QED BY <1>9 DEF RoundsRegistered

\* Opening or cancelling a schedule touches no round.
LEMMA SchedulesAgree ==
    ASSUME TypeInv, RegistryInv,
           \/ \E c \in Creators, d \in Descriptions, f \in BaseFees :
                 CreateRecurringRaffle(c, d, f)
           \/ \E i \in DOMAIN schedules : CancelRecurringRaffle(i)
    PROVE  RoundsRegistered' /\ UNCHANGED registryVars
<1>s. schedules \in Seq(Schedule)
  BY DEF TypeInv, IndexType
<1>i. \A j \in DOMAIN schedules :
         LET s == schedules[j] IN
         /\ s.round = Len(s.instances)
         /\ \A k \in DOMAIN s.instances :
               s.instances[k] \in DOMAIN raffles /\ raffles[s.instances[k]].kind = "round"
  BY DEF RegistryInv, RegistryAgrees, RoundsRegistered
<1>1. ASSUME NEW c \in Creators, NEW d \in Descriptions, NEW f \in BaseFees,
             CreateRecurringRaffle(c, d, f)
      PROVE  RoundsRegistered' /\ UNCHANGED registryVars
  <2> DEFINE new == [creator |-> c, description |-> d, fee |-> f, nextDue |-> now + Interval,
                     round |-> 0, active |-> TRUE, instances |-> << >>]
  <2>1. schedules' = Append(schedules, new) /\ UNCHANGED registryVars
    BY <1>1 DEF CreateRecurringRaffle
  <2>2. new.round = 0 /\ new.instances = << >>
    OBVIOUS
  <2>3. new \in Schedule
    <3>1. Interval \in Nat /\ f \in Nat /\ now \in Nat
      BY FactoryAssumption DEF TypeInv
    <3>2. now + Interval \in Nat
      BY <3>1
    <3>3. << >> \in Seq(Address)
      BY EmptySeq
    <3> QED BY <3>1, <3>2, <3>3 DEF Schedule
  <2> HIDE DEF new
  <2> DEFINE m == Len(schedules)
  <2>4. /\ DOMAIN schedules' = 1..(m + 1) /\ m \in Nat /\ DOMAIN schedules = 1..m
        /\ schedules'[m + 1] = new
        /\ \A j \in 1..m : schedules'[j] = schedules[j]
    BY <1>s, <2>1, <2>3, AppendProperties, LenProperties
  <2> HIDE DEF m
  <2>5. \A j \in 1..(m + 1) : j = m + 1 \/ j \in 1..m
    BY <2>4
  <2>6. Len(<< >>) = 0 /\ DOMAIN << >> = {}
    OBVIOUS
  <2>7. raffles' = raffles
    BY <2>1 DEF registryVars
  <2>8. \A j \in DOMAIN schedules' :
           /\ schedules'[j].round = Len(schedules'[j].instances)
           /\ \A k \in DOMAIN schedules'[j].instances :
                 /\ schedules'[j].instances[k] \in DOMAIN raffles'
                 /\ raffles'[schedules'[j].instances[k]].kind = "round"
    BY <1>i, <2>2, <2>4, <2>5, <2>6, <2>7
  <2> QED BY <2>1, <2>8 DEF RoundsRegistered
<1>2. ASSUME NEW i \in DOMAIN schedules, CancelRecurringRaffle(i)
      PROVE  RoundsRegistered' /\ UNCHANGED registryVars
  <2>1. schedules[i] \in Schedule
    BY ScheduleOf
  <2> DEFINE s == schedules[i]
  <2> DEFINE t == [s EXCEPT !.active = FALSE]
  <2>2. t \in Schedule /\ t.round = s.round /\ t.instances = s.instances
    BY <2>1 DEF Schedule
  <2>3. schedules' = [schedules EXCEPT ![i] = t]
    BY <1>2, <2>1 DEF CancelRecurringRaffle, Schedule
  <2>4. UNCHANGED registryVars /\ raffles' = raffles
    BY <1>2 DEF CancelRecurringRaffle, registryVars
  <2> HIDE DEF t
  <2>5. /\ DOMAIN schedules' = DOMAIN schedules
        /\ schedules'[i] = t
        /\ \A j \in DOMAIN schedules : j # i => schedules'[j] = schedules[j]
    BY <1>s, <2>2, <2>3, ReplaceType
  <2>6. \A j \in DOMAIN schedules' : schedules'[j].round = schedules[j].round
                                     /\ schedules'[j].instances = schedules[j].instances
    BY <2>2, <2>5
  <2> HIDE DEF s
  <2> QED BY <1>i, <2>4, <2>5, <2>6 DEF RoundsRegistered
<1> QED BY <1>1, <1>2

LEMMA RegistryNext == TypeInv /\ RegistryInv /\ [Next]_vars => RegistryInv'
<1> SUFFICES ASSUME TypeInv, RegistryInv, [Next]_vars PROVE RegistryInv'
  OBVIOUS
<1>0. ASSUME UNCHANGED registryVars
      PROVE  StableIds' /\ IsFiniteSet(DOMAIN raffles') /\ IndexesAgree' /\ CheckpointsAgree'
  <2> USE <1>0 DEF registryVars, RegistryInv, RegistryAgrees
  <2>1. StableIds' /\ IsFiniteSet(DOMAIN raffles')
    BY DEF StableIds
  <2>2. IndexesAgree'
    BY DEF IndexesAgree, Lists, Rank
  <2>3. CheckpointsAgree'
    BY DEF CheckpointsAgree
  <2> QED BY <2>1, <2>2, <2>3
<1>1. CASE UNCHANGED <<registryVars, schedules>>
  <2>1. RoundsRegistered'
    BY <1>1 DEF registryVars, RegistryInv, RegistryAgrees, RoundsRegistered
  <2> QED BY <1>0, <1>1, <2>1 DEF RegistryInv, RegistryAgrees
<1>2. ASSUME NEW c \in Creators, NEW d \in Descriptions, CreateRaffle(c, d)
      PROVE  RegistryInv'
  <2>1. PICK kind \in {"partner", "limited"} : CreateRaffleInternal(c, d, config.fee, kind)
    BY <1>2 DEF CreateRaffle
  <2>2. UNCHANGED <<schedules, now>>
    BY <1>2 DEF CreateRaffle
  <2>3. RoundsRegistered'
    BY <2>1, <2>2, RoundsStay DEF RoundsRegistered
  <2> QED BY <2>1, <2>2, <2>3, CreatedAgrees DEF RegistryInv, RegistryAgrees
<1>3. ASSUME NEW i \in DOMAIN schedules, TriggerNextRound(i)
      PROVE  RegistryInv'
  <2>1. RoundsRegistered'
    BY <1>3, TriggerRegisters
  <2> DEFINE s == schedules[i]
  <2>2. s.creator \in Creators /\ s.description \in Descriptions
    BY ScheduleOf DEF Schedule
  <2>3. CreateRaffleInternal(s.creator, s.description, s.fee, "round") /\ UNCHANGED now
    BY <1>3 DEF TriggerNextRound
  <2> HIDE DEF s
  <2>4. StableIds' /\ IsFiniteSet(DOMAIN raffles') /\ IndexesAgree' /\ CheckpointsAgree'
    BY <2>2, <2>3, CreatedAgrees
  <2> QED BY <2>1, <2>4 DEF RegistryInv, RegistryAgrees
<1>4. CASE \/ \E c \in Creators, d \in Descriptions, f \in BaseFees :
                 CreateRecurringRaffle(c, d, f)
           \/ \E i \in DOMAIN schedules : CancelRecurringRaffle(i)
  BY <1>0, <1>4, SchedulesAgree DEF RegistryInv, RegistryAgrees
<1>5. CASE Govern
  <2>1. UNCHANGED <<registryVars, schedules>>
    BY <1>5 DEF Govern, TransferFactoryAdmin, AcceptFactoryAdmin,
                SetConfig, ProposeFeeChange, ProposeWasmUpgrade, Propose,
                ExecuteConfigChange, CancelConfigChange, PauseFactory, SetCreationPaused,
                Switched, SetCreationDelay, SetWhitelistStatus
  <2> QED BY <1>1, <2>1
<1>6. CASE Tick \/ UNCHANGED vars
  <2>1. UNCHANGED <<registryVars, schedules>>
    BY <1>6 DEF Tick, vars
  <2> QED BY <1>1, <2>1
<1> QED BY <1>2, <1>3, <1>4, <1>5, <1>6 DEF Next, Create

\* After any number of raffles and rounds, the stable ids, the creators' and the
\* categories' indexes, the rounds of the schedules and the checkpoints of the
\* factory describe the same raffles in the same order.
THEOREM RegistryIsConsistent == Spec => []RegistryAgrees
<1>1. RegistryInv => RegistryAgrees
  BY DEF RegistryInv
<1> QED BY <1>1, RegistryInit, RegistryNext, TypeAlways, PTL DEF Spec

=============================================================================
