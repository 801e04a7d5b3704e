---------------------------- MODULE RaffleFactory ----------------------------
(***************************************************************************)
(* The factory contract (contracts/raffle-factory): who its admin is, the  *)
(* timelocked changes of its configuration, the creation of raffles, one   *)
(* by one and in recurring rounds, and the indexes it keeps of them.       *)
(*                                                                         *)
(* Every call is atomic.  The deployed address of a raffle is a hash of    *)
(* its creator and description, so the pair stands for it.  Of a raffle's  *)
(* configuration only the fee is kept.  clean_old_raffle is left out: it   *)
(* reads the key RaffleCreator, which no call stores, and always returns   *)
(* InvalidRaffleId.                                                        *)
(***************************************************************************)
EXTENDS Integers, Sequences, FiniteSets

CONSTANTS
    Addresses,          \* candidates for admin
    Treasuries,         \* addresses that set_config is called with
    Self,               \* the factory's own address, one of them
    InitialAdmin,
    Creators,
    Descriptions,
    Categorised,        \* descriptions of raffles that carry a category
    WasmHashes,
    InitialConfig,      \* fee, treasury and wasm given to init_factory
    AddressKeys,        \* keys that set_config is called with
    Fees,               \* fees that are proposed
    MaxProtocolFeeBp,
    BaseFees,           \* fees in the base_config of recurring raffles
    TimelockDelay,
    CreationDelays,     \* values of set_creation_delay; the default is one of them
    DefaultDelay,
    CheckpointInterval,
    Interval,           \* interval_seconds of a recurring raffle
    MaxRounds,          \* its max_rounds, 0 for no limit
    StartTime,
    MaxTime,            \* bound: the clock
    MaxOps,             \* bound: proposals
    MaxSchedules,       \* bound: recurring raffles
    MaxRaffles          \* bound: raffles

ConfigKeys == {"fee", "treasury", "wasm"}

ASSUME FactoryAssumption ==
    /\ InitialAdmin \in Addresses \ {Self}
    /\ Categorised \subseteq Descriptions
    /\ DOMAIN InitialConfig = ConfigKeys
    /\ InitialConfig.fee \in 0..MaxProtocolFeeBp
    /\ InitialConfig.treasury # Self
    /\ InitialConfig.wasm \in WasmHashes
    /\ AddressKeys \subseteq {"treasury", "oracle"}
    /\ Fees \subseteq Nat /\ BaseFees \subseteq Nat /\ CreationDelays \subseteq Nat
    /\ DefaultDelay \in CreationDelays
    /\ CheckpointInterval \in Nat \ {0}
    /\ {TimelockDelay, MaxProtocolFeeBp, Interval, MaxRounds, StartTime,
        MaxTime, MaxOps, MaxSchedules, MaxRaffles} \subseteq Nat

None == "none"

VARIABLES
    admin, pendingAdmin,
    config,           \* ProtocolFeeBP, Treasury, InstanceWasmHash
    pendingOps,       \* PendingOp entries: [id, key, value, due]
    opCounter,
    switches,         \* which of Paused and CreationPaused are set
    minCreationDelay,
    lastCreation,     \* LastCreationTime, 0 when absent
    partners,         \* whitelisted creators
    registry,         \* RaffleById: stable id i is at position i + 1
    raffles,          \* deployed raffles: address -> [fee, kind, at]
    creatorRaffles,
    categoryRaffles,
    totalCreated,
    checkpoints,      \* Checkpoint: index -> [count, at]
    schedules,        \* RecurringRaffle and RecurringRaffleInstances
    now,
    \* history
    offered,          \* whom the admin's latest transfer call named
    feesProposed      \* every fee ever proposed: [fee, at]

adminVars    == <<admin, pendingAdmin, offered>>
configVars   == <<config, pendingOps, opCounter, feesProposed>>
limitVars    == <<switches, minCreationDelay, partners>>
registryVars == <<registry, raffles, creatorRaffles, categoryRaffles,
                  totalCreated, checkpoints>>
vars == <<adminVars, configVars, limitVars, lastCreation, registryVars, schedules,
          now>>

\* Mutant: any address may have a role.
AnyRole(a) == TRUE

\* require_valid_role_address; the addresses of the model all exist.
ValidRole(a) == a # Self

Init ==
    /\ admin = InitialAdmin
    /\ pendingAdmin = None
    /\ config = InitialConfig
    /\ pendingOps = {}
    /\ opCounter = 0
    /\ switches = {}
    /\ minCreationDelay = DefaultDelay
    /\ lastCreation = [c \in Creators |-> 0]
    /\ partners = {}
    /\ registry = << >>
    /\ raffles = << >>
    /\ creatorRaffles = [c \in Creators |-> << >>]
    /\ categoryRaffles = << >>
    /\ totalCreated = 0
    /\ checkpoints = << >>
    /\ schedules = << >>
    /\ now = StartTime
    /\ offered = None
    /\ feesProposed = {}

-----------------------------------------------------------------------------
(* The admin                                                                *)

\* Mutant: naming oneself is ignored, and an open offer stands.
WithdrawOfferIgnored == UNCHANGED pendingAdmin

\* transfer_factory_admin to oneself takes an open offer back.
WithdrawOffer == pendingAdmin' = None

TransferFactoryAdmin(a) ==
    /\ IF a = admin
       THEN WithdrawOffer /\ offered' = None
       ELSE /\ ValidRole(a)
            /\ pendingAdmin = None
            /\ pendingAdmin' = a
            /\ offered' = a
    /\ UNCHANGED <<admin, configVars, limitVars, lastCreation, registryVars,
                   schedules, now>>

AcceptFactoryAdmin ==
    /\ pendingAdmin # None
    /\ admin' = pendingAdmin
    /\ pendingAdmin' = None
    /\ offered' = None
    /\ UNCHANGED <<configVars, limitVars, lastCreation, registryVars, schedules,
                   now>>

-----------------------------------------------------------------------------
(* Timelocked changes                                                       *)

\* Mutant: the change is due at once.
DueAtOnce == now

Due == now + TimelockDelay

Propose(key, value) ==
    /\ opCounter < MaxOps
    /\ opCounter' = opCounter + 1
    /\ pendingOps' = pendingOps \cup
          {[id |-> opCounter + 1, key |-> key, value |-> value, due |-> Due]}
    /\ feesProposed' = IF key = "fee" THEN feesProposed \cup {[fee |-> value, at |-> now]}
                       ELSE feesProposed
    /\ UNCHANGED <<adminVars, config, limitVars, lastCreation, registryVars,
                   schedules, now>>

\* set_config.  The keys Oracle and SwapRouter can be proposed too and have
\* nothing to change; "oracle" stands for both.
SetConfig(key, a) ==
    /\ ValidRole(a)
    /\ Propose(key, a)

ProposeFeeChange(f) ==
    /\ f <= MaxProtocolFeeBp
    /\ Propose("fee", f)

ProposeWasmUpgrade(h) == Propose("wasm", h)

\* Mutant: an executed change stays pending.
RemoveOpNever(op) == UNCHANGED pendingOps

RemoveOp(op) == pendingOps' = pendingOps \ {op}

\* A key that is not stored changes nothing.
ExecuteConfigChange(op) ==
    /\ now >= op.due
    /\ op.key \in AddressKeys => ValidRole(op.value)
    /\ op.key = "fee" => op.value <= MaxProtocolFeeBp
    /\ config' = [k \in ConfigKeys |-> IF k = op.key THEN op.value ELSE config[k]]
    /\ RemoveOp(op)
    /\ UNCHANGED <<adminVars, opCounter, feesProposed, limitVars, lastCreation,
                   registryVars, schedules, now>>

CancelConfigChange(op) ==
    /\ RemoveOp(op)
    /\ UNCHANGED <<adminVars, config, opCounter, feesProposed, limitVars, lastCreation,
                   registryVars, schedules, now>>

-----------------------------------------------------------------------------
(* Limits on creation                                                       *)

Switched(s, on) ==
    /\ switches' = IF on THEN switches \cup {s} ELSE switches \ {s}
    /\ UNCHANGED <<adminVars, configVars, minCreationDelay, partners, lastCreation,
                   registryVars, schedules, now>>

\* pause_factory, unpause_factory
PauseFactory(on) == Switched("factory", on)

SetCreationPaused(on) == Switched("creation", on)

SetCreationDelay(d) ==
    /\ minCreationDelay' = d
    /\ UNCHANGED <<adminVars, configVars, switches, partners, lastCreation,
                   registryVars, schedules, now>>

SetWhitelistStatus(c, on) ==
    /\ partners' = IF on THEN partners \cup {c} ELSE partners \ {c}
    /\ UNCHANGED <<adminVars, configVars, switches, minCreationDelay, lastCreation,
                   registryVars, schedules, now>>

-----------------------------------------------------------------------------
(* Creation                                                                 *)

\* Mutant: checkpoints are taken one raffle late.
MaybeCreateCheckpointLate(count) ==
    checkpoints' = IF count > 1 /\ (count - 1) % CheckpointInterval = 0
                   THEN Append(checkpoints, [count |-> count, at |-> now])
                   ELSE checkpoints

\* maybe_create_checkpoint; the index counts up by one, so the entries are a
\* sequence and LatestCheckpointIndex is its length.
MaybeCreateCheckpoint(count) ==
    checkpoints' = IF count % CheckpointInterval = 0
                   THEN Append(checkpoints, [count |-> count, at |-> now])
                   ELSE checkpoints

Indexed(c, d) ==
    /\ creatorRaffles' = [creatorRaffles EXCEPT ![c] = Append(@, <<c, d>>)]
    /\ categoryRaffles' = IF d \in Categorised THEN Append(categoryRaffles, <<c, d>>)
                          ELSE categoryRaffles

\* Two contracts cannot be deployed at one address.
AddressFree(c, d) == <<c, d>> \notin DOMAIN raffles

\* create_raffle_internal
CreateRaffleInternal(c, d, fee, kind) ==
    /\ totalCreated < MaxRaffles
    /\ AddressFree(c, d)
    /\ raffles' = [a \in DOMAIN raffles \cup {<<c, d>>} |->
                      IF a = <<c, d>>
                      THEN [fee |-> fee, kind |-> kind, at |-> now]
                      ELSE raffles[a]]
    /\ registry' = Append(registry, <<c, d>>)
    /\ Indexed(c, d)
    /\ totalCreated' = totalCreated + 1
    /\ MaybeCreateCheckpoint(totalCreated + 1)

\* Mutant: the time of a creation is not kept.
StampNever(c) == lastCreation

Stamp(c) == [lastCreation EXCEPT ![c] = now]

\* GlobalEmergencyPause is not looked at.
CreateRaffle(c, d) ==
    /\ {"factory", "creation"} \cap switches = {}
    /\ IF c \in partners
       THEN /\ UNCHANGED lastCreation
            /\ CreateRaffleInternal(c, d, config.fee, "partner")
       ELSE /\ now >= lastCreation[c] + minCreationDelay
            /\ lastCreation' = Stamp(c)
            /\ CreateRaffleInternal(c, d, config.fee, "limited")
    /\ UNCHANGED <<adminVars, configVars, limitVars, schedules, now>>

CreateRecurringRaffle(c, d, fee) ==
    /\ "factory" \notin switches
    /\ Len(schedules) < MaxSchedules
    /\ schedules' = Append(schedules,
          [creator |-> c, description |-> d, fee |-> fee, nextDue |-> now + Interval,
           round |-> 0, active |-> TRUE, instances |-> << >>])
    /\ UNCHANGED <<adminVars, configVars, limitVars, lastCreation, registryVars, now>>

\* What trigger_next_round checks of the schedule.
RoundDue(s) ==
    /\ s.active
    /\ now >= s.nextDue
    /\ MaxRounds > 0 => s.round < MaxRounds

\* The raffle of a round has the fee of its base_config.
TriggerNextRound(i) ==
    LET s == schedules[i] IN
    /\ "factory" \notin switches
    /\ RoundDue(s)
    /\ CreateRaffleInternal(s.creator, s.description, s.fee, "round")
    /\ schedules' = [schedules EXCEPT
          ![i].round = @ + 1,
          ![i].nextDue = now + Interval,
          ![i].instances = Append(@, <<s.creator, s.description>>)]
    /\ UNCHANGED <<adminVars, configVars, limitVars, lastCreation, now>>

CancelRecurringRaffle(i) ==
    /\ schedules' = [schedules EXCEPT ![i].active = FALSE]
    /\ UNCHANGED <<adminVars, configVars, limitVars, lastCreation, registryVars, now>>

Tick ==
    /\ now < MaxTime
    /\ now' = now + 1
    /\ UNCHANGED <<adminVars, configVars, limitVars, lastCreation, registryVars,
                   schedules>>

-----------------------------------------------------------------------------
Govern ==
    \/ \E a \in Addresses : TransferFactoryAdmin(a)
    \/ AcceptFactoryAdmin
    \/ \E k \in AddressKeys, a \in Treasuries : SetConfig(k, a)
    \/ \E f \in Fees : ProposeFeeChange(f)
    \/ \E h \in WasmHashes : ProposeWasmUpgrade(h)
    \/ \E op \in pendingOps : ExecuteConfigChange(op) \/ CancelConfigChange(op)
    \/ \E on \in BOOLEAN : PauseFactory(on) \/ SetCreationPaused(on)
    \/ \E d \in CreationDelays : SetCreationDelay(d)
    \/ \E c \in Creators, on \in BOOLEAN : SetWhitelistStatus(c, on)

Create ==
    \/ \E c \in Creators, d \in Descriptions : CreateRaffle(c, d)
    \/ \E c \in Creators, d \in Descriptions, f \in BaseFees :
          CreateRecurringRaffle(c, d, f)
    \/ \E i \in DOMAIN schedules : TriggerNextRound(i) \/ CancelRecurringRaffle(i)

Next == Govern \/ Create \/ Tick

Spec == Init /\ [][Next]_vars

-----------------------------------------------------------------------------
(* Properties                                                               *)

Raffle == [fee : Nat, kind : {"limited", "partner", "round"}, at : Nat]

Op == [id : 1..MaxOps, key : {"fee"}, value : 0..MaxProtocolFeeBp, due : Nat]
      \cup [id : 1..MaxOps, key : AddressKeys, value : Treasuries \ {Self}, due : Nat]
      \cup [id : 1..MaxOps, key : {"wasm"}, value : WasmHashes, due : Nat]

\* Every key holds a value of its type; the fee in force is within its cap and
\* the factory is never its own admin or treasury.
TypeOK ==
    /\ admin \in Addresses \ {Self}
    /\ pendingAdmin \in (Addresses \ {Self}) \cup {None}
    /\ DOMAIN config = ConfigKeys
    /\ config.fee \in 0..MaxProtocolFeeBp
    /\ config.treasury \in (Treasuries \cup {InitialConfig.treasury}) \ {Self}
    /\ config.wasm \in WasmHashes
    /\ pendingOps \subseteq Op
    /\ opCounter \in 0..MaxOps
    /\ switches \subseteq {"factory", "creation"}
    /\ minCreationDelay \in CreationDelays
    /\ lastCreation \in [Creators -> Nat]
    /\ partners \subseteq Creators
    /\ registry \in Seq(Creators \X Descriptions)
    /\ DOMAIN raffles \subseteq Creators \X Descriptions
    /\ \A a \in DOMAIN raffles : raffles[a] \in Raffle
    /\ totalCreated \in 0..MaxRaffles
    /\ now \in Nat

\* Every deployed raffle is registered under exactly one stable id.
StableIds ==
    /\ Len(registry) = totalCreated
    /\ {registry[i] : i \in DOMAIN registry} = DOMAIN raffles
    /\ Cardinality(DOMAIN raffles) = totalCreated

\* How many of the first i registered raffles are in S.
Rank(i, S) == Cardinality({j \in 1..i : registry[j] \in S})

\* An index lists the registered raffles of S in the order of their creation.
Lists(index, S) ==
    /\ Len(index) = Rank(Len(registry), S)
    /\ \A i \in DOMAIN registry : registry[i] \in S => index[Rank(i, S)] = registry[i]

IndexesAgree ==
    /\ \A c \in Creators : Lists(creatorRaffles[c], {c} \X Descriptions)
    /\ Lists(categoryRaffles, Creators \X Categorised)

\* The rounds of a schedule are counted, and are raffles made as rounds.
RoundsRegistered ==
    \A i \in DOMAIN schedules :
        LET s == schedules[i] IN
        /\ s.round = Len(s.instances)
        /\ \A k \in DOMAIN s.instances :
              /\ s.instances[k] \in DOMAIN raffles
              /\ raffles[s.instances[k]].kind = "round"

\* One checkpoint for every full interval of raffles, with the count and the time
\* of the raffle that completed it.
CheckpointsAgree ==
    /\ Len(checkpoints) = totalCreated \div CheckpointInterval
    /\ \A k \in DOMAIN checkpoints :
          /\ checkpoints[k].count = k * CheckpointInterval
          /\ checkpoints[k].at = raffles[registry[k * CheckpointInterval]].at

\* The indexes tell the same story: every deployed raffle is registered under
\* exactly one stable id, in its creator's index and in its category's index, in
\* the order of creation; every round of a schedule is among them; and there is
\* one checkpoint for every full interval of raffles, with the count and the time
\* of the raffle that completed it (create_raffle_internal, trigger_next_round,
\* maybe_create_checkpoint).
RegistryAgrees ==
    StableIds /\ IndexesAgree /\ RoundsRegistered /\ CheckpointsAgree

\* A raffle that a creator makes while not a partner comes no earlier than the
\* delay in force after every raffle it has made that way, whatever the admin did
\* to the whitelist and whatever rounds ran in between (create_raffle).
RateLimited ==
    [][\A a \in DOMAIN raffles' \ DOMAIN raffles : raffles'[a].kind = "limited" =>
          \A b \in DOMAIN raffles :
              b[1] = a[1] /\ raffles[b].kind = "limited"
              => now >= raffles[b].at + minCreationDelay]_vars

\* The fee a raffle was created with by create_raffle was given to init_factory
\* or had been announced for the whole delay when the raffle was created.
FeesAnnounced ==
    \A a \in DOMAIN raffles :
        raffles[a].kind # "round" =>
            \/ raffles[a].fee = InitialConfig.fee
            \/ \E p \in feesProposed :
                  /\ p.fee = raffles[a].fee
                  /\ p.at + TimelockDelay <= raffles[a].at

\* The role moves only to the address that the admin's latest transfer call
\* named: an offer taken back cannot be accepted (accept_factory_admin).
OfferAccepted == [][admin' # admin => admin' = offered]_vars

\* The factory's configuration keeps the promise of a timelock.
TL == INSTANCE Timelock WITH
    Delay <- TimelockDelay,
    time <- now,
    setting <- config,
    announced <- {[id |-> op.id, key |-> op.key, value |-> op.value,
                   at |-> op.due - TimelockDelay] : op \in pendingOps},
    lastId <- opCounter

\* Every change of fee, treasury or code hash was announced, has waited and
\* takes effect once; what was cancelled never does (execute_config_change).
TimelockKept == TL!TLSpec

=============================================================================
