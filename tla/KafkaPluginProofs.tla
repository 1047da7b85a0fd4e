-------------------------- MODULE KafkaPluginProofs --------------------------
(***************************************************************************)
(* What holds of the kafka plugin for any topics, whatever a script calls  *)
(* in whatever order and however often.                                    *)
(***************************************************************************)
EXTENDS KafkaPlugin, TLAPS

\* The configuration of a role, which every configure() of the role makes.
FirstMade == [g \in Globals |-> IF g \in ConsumerGlobals THEN "consumer_configuration"
                                ELSE "producer_configuration"]

\* Of the objects behind a pointer: those alive were made, and no pointer was made more often
\* than configure() was called.
Counted ==
  \A g \in Globals : /\ made[g] <= made[FirstMade[g]]
                     /\ alive[g] \subseteq 1 .. made[g]

\* What a role in use points to is alive, and so is everything before the first shutdown().
Usable ==
  /\ "consumer" \in named => \A g \in ConsumerGlobals : pointer[g] \in alive[g]
  /\ "producer" \in named => \A g \in ProducerGlobals : pointer[g] \in alive[g]
  /\ shutdowns = 0 => \A g \in Globals : ~Dangling(g)

\* The one configuration of a role is behind its pointers.
Kept == \A g \in Globals : made[FirstMade[g]] <= 1 => alive[g] \subseteq {pointer[g]}

\* What was named to the script is in the list.
Listed == told \cup created \subseteq ToSet(list)

IInv == TypeOK /\ Counted /\ Usable /\ Kept /\ Listed /\ NoStrayUse /\ SubscribedAsTold

-----------------------------------------------------------------------------
LEMMA GlobalsKnown ==
  /\ Globals = ConsumerGlobals \cup ProducerGlobals /\ ConsumerGlobals \cap ProducerGlobals = {}
  /\ "consumer_configuration" \in ConsumerGlobals /\ "kafka_consumer" \in ConsumerGlobals
  /\ "consumer_topic_configuration" \in ConsumerGlobals
  /\ "producer_configuration" \in ProducerGlobals /\ "kafka_producer" \in ProducerGlobals
  /\ "producer_topic_configuration" \in ProducerGlobals
  /\ \A g \in ConsumerGlobals : FirstMade[g] = "consumer_configuration"
  /\ \A g \in ProducerGlobals : FirstMade[g] = "producer_configuration"
  BY DEF Globals, ConsumerGlobals, ProducerGlobals, FirstMade

LEMMA ToSetAppend ==
  ASSUME NEW S, NEW s \in Seq(S), NEW t \in S
  PROVE  ToSet(Append(s, t)) = ToSet(s) \cup {t}
  <1>1. /\ Append(s, t) \in Seq(S) /\ Len(Append(s, t)) = Len(s) + 1 /\ Len(s) \in Nat
        /\ \A i \in 1 .. Len(s) : Append(s, t)[i] = s[i]
        /\ Append(s, t)[Len(s) + 1] = t
    OBVIOUS
  <1>2. DOMAIN s = 1 .. Len(s) /\ DOMAIN Append(s, t) = 1 .. (Len(s) + 1)
    BY <1>1
  <1> QED
    BY <1>1, <1>2 DEF ToSet

LEMMA IInvInit == ASSUME Init PROVE IInv
  <1> USE DEF Init
  <1>1. TypeOK
    <2>1. 0 \in 0 .. MaxConfigures /\ 0 \in 0 .. MaxLog /\ 0 \in 0 .. MaxShutdowns /\ 0 \in 0 .. MaxLost
      BY KafkaAssumption
    <2>2. list \in Seq(Topics) /\ Len(list) = 0 /\ 0 <= MaxListed
      BY KafkaAssumption
    <2> QED
      BY <2>1, <2>2 DEF TypeOK
  <1>2. Counted /\ Usable /\ Kept
    BY GlobalsKnown DEF Counted, Usable, Kept, Dangling
  <1>3. Listed /\ NoStrayUse /\ SubscribedAsTold
    BY DEF Listed, NoStrayUse, SubscribedAsTold, Intact
  <1> QED
    BY <1>1, <1>2, <1>3 DEF IInv

-----------------------------------------------------------------------------
(* configure().                                                            *)

\* What the pointers of one role are after its configure(); those of the other stay.
LEMMA AssignKeeps ==
  ASSUME IInv, NEW G \in {ConsumerGlobals, ProducerGlobals}, NEW first \in G,
         NEW new \in SUBSET G, NEW null \in SUBSET G, first \in new, new \cap null = {},
         \A g \in G : FirstMade[g] = first, made[first] < MaxConfigures, Assign(new, null)
  PROVE  /\ pointer' \in [Globals -> 0 .. MaxConfigures]
         /\ made' \in [Globals -> 0 .. MaxConfigures]
         /\ alive' \in [Globals -> SUBSET (1 .. MaxConfigures)]
         /\ Counted' /\ Kept'
         /\ \A g \in Globals \ G : pointer'[g] = pointer[g] /\ alive'[g] = alive[g]
         /\ \A g \in new \ null : pointer'[g] \in alive'[g]
         /\ (\A g \in Globals : ~Dangling(g)) => \A g \in Globals : ~Dangling(g)'
  <1>1. /\ made' = [g \in Globals |-> IF g \in new THEN made[g] + 1 ELSE made[g]]
        /\ pointer' = [g \in Globals |->
             IF g \in null THEN 0 ELSE IF g \in new THEN made[g] + 1 ELSE pointer[g]]
        /\ alive' = [g \in Globals |->
             IF g \in new THEN alive[g] \cup {made[g] + 1} ELSE alive[g]]
    BY DEF Assign
  <1>2. /\ G \subseteq Globals /\ first \in Globals
        /\ \A g \in Globals \ G : FirstMade[g] \in Globals \ G
    BY GlobalsKnown
  <1>3. /\ \A g \in Globals : made[g] \in 0 .. MaxConfigures /\ pointer[g] \in 0 .. MaxConfigures
        /\ \A g \in Globals : made[g] <= made[FirstMade[g]] /\ alive[g] \subseteq 1 .. made[g]
        /\ \A g \in Globals : alive[g] \subseteq 1 .. MaxConfigures
        /\ \A g \in Globals : made[FirstMade[g]] <= 1 => alive[g] \subseteq {pointer[g]}
        /\ MaxConfigures \in Nat
    BY KafkaAssumption DEF IInv, TypeOK, Counted, Kept
  <1>4. \A g \in G : made[g] + 1 \in 1 .. MaxConfigures
    BY <1>2, <1>3
  <1>5. /\ pointer' \in [Globals -> 0 .. MaxConfigures]
        /\ made' \in [Globals -> 0 .. MaxConfigures]
        /\ alive' \in [Globals -> SUBSET (1 .. MaxConfigures)]
    BY <1>1, <1>2, <1>3, <1>4
  <1>6. Counted'
    <2> SUFFICES ASSUME NEW g \in Globals
                 PROVE  made'[g] <= made'[FirstMade[g]] /\ alive'[g] \subseteq 1 .. made'[g]
      BY DEF Counted
    <2>1. made'[g] <= made'[FirstMade[g]]
      BY <1>1, <1>2, <1>3
    <2>2. alive'[g] \subseteq 1 .. made'[g]
      BY <1>1, <1>2, <1>3
    <2> QED BY <2>1, <2>2
  <1>7. Kept'
    <2> SUFFICES ASSUME NEW g \in Globals, made'[FirstMade[g]] <= 1
                 PROVE  alive'[g] \subseteq {pointer'[g]}
      BY DEF Kept
    <2>1. CASE g \in G
      <3>1. made[first] = 0 /\ made[g] = 0 /\ alive[g] = {}
        BY <1>1, <1>2, <1>3, <2>1
      <3> QED
        BY <1>1, <1>2, <1>3, <2>1, <3>1 DEF Kept
    <2>2. CASE g \notin G
      BY <1>1, <1>2, <1>3, <2>2
    <2> QED BY <2>1, <2>2
  <1>8. (\A g \in Globals : ~Dangling(g)) => \A g \in Globals : ~Dangling(g)'
    BY <1>1, <1>2, <1>3 DEF Dangling
  <1> QED
    BY <1>1, <1>2, <1>5, <1>6, <1>7, <1>8

LEMMA ConfigureConsumerKeeps == ASSUME IInv, ConfigureConsumer PROVE IInv'
  <1>1. PICK new \in SUBSET ConsumerGlobals, null \in SUBSET ConsumerGlobals :
          /\ Assign(new, null) /\ "consumer_configuration" \in new /\ new \cap null = {}
          /\ named' \in SUBSET Roles /\ named' \ {"consumer"} = named \ {"consumer"}
          /\ "consumer" \in named' => new = ConsumerGlobals
          /\ KeepConsumer \/ NewConsumer
    <2>1. named \cup {"consumer"} \in SUBSET Roles /\ named \ {"consumer"} \in SUBSET Roles
      BY DEF IInv, TypeOK, Roles
    <2>2. CASE /\ Assign({"consumer_configuration"}, {})
               /\ Named("consumer", FALSE) /\ KeepConsumer
      BY <2>1, <2>2, GlobalsKnown DEF Named
    <2>3. CASE /\ Assign({"consumer_configuration"}, {"kafka_consumer"})
               /\ Named("consumer", FALSE) /\ KeepConsumer
      BY <2>1, <2>3, GlobalsKnown DEF Named
    <2>4. CASE /\ Assign(ConsumerGlobals, {})
               /\ \E ok \in BOOLEAN : Named("consumer", ok)
               /\ NewConsumer
      <3>1. named' = named \cup {"consumer"} \/ named' = named \ {"consumer"}
        BY <2>4 DEF Named
      <3> QED
        BY <2>1, <2>4, <3>1, GlobalsKnown
    <2> QED
      BY <2>2, <2>3, <2>4 DEF ConfigureConsumer
  <1>2. /\ made["consumer_configuration"] < MaxConfigures
        /\ UNCHANGED <<topics, list, log, consuming, undeleted, shutdowns, broken>> /\ broken = Intact
    BY DEF ConfigureConsumer, Idle
  <1>3. /\ pointer' \in [Globals -> 0 .. MaxConfigures]
        /\ made' \in [Globals -> 0 .. MaxConfigures]
        /\ alive' \in [Globals -> SUBSET (1 .. MaxConfigures)]
        /\ Counted' /\ Kept'
        /\ \A g \in ProducerGlobals : pointer'[g] = pointer[g] /\ alive'[g] = alive[g]
        /\ \A g \in new \ null : pointer'[g] \in alive'[g]
        /\ (\A g \in Globals : ~Dangling(g)) => \A g \in Globals : ~Dangling(g)'
    BY <1>1, <1>2, AssignKeeps, GlobalsKnown
  <1>4. subscription' \subseteq Topics /\ told' \subseteq Topics /\ created' \subseteq Topics
        /\ position' \in [Topics -> 0 .. MaxLog]
    BY <1>1 DEF IInv, TypeOK, KeepConsumer, NewConsumer
  <1>5. TypeOK'
    BY <1>1, <1>2, <1>3, <1>4 DEF IInv, TypeOK
  <1>6. Usable'
    <2>1. "consumer" \in named' => \A g \in ConsumerGlobals : pointer'[g] \in alive'[g]
      BY <1>1, <1>3
    <2>2. "producer" \in named' => \A g \in ProducerGlobals : pointer'[g] \in alive'[g]
      BY <1>1, <1>3 DEF IInv, Usable
    <2> QED
      BY <1>2, <1>3, <2>1, <2>2 DEF IInv, Usable
  <1>7. Listed' /\ SubscribedAsTold' /\ NoStrayUse'
    <2>1. NoStrayUse'
      BY <1>1, <1>2 DEF NoStrayUse, Intact, Roles
    <2> QED
      BY <1>1, <1>2, <2>1 DEF IInv, Listed, SubscribedAsTold, Accepts, KeepConsumer, NewConsumer
  <1> QED
    BY <1>3, <1>5, <1>6, <1>7 DEF IInv

LEMMA ConfigureProducerKeeps == ASSUME IInv, ConfigureProducer PROVE IInv'
  <1>1. PICK new \in SUBSET ProducerGlobals, null \in SUBSET ProducerGlobals :
          /\ Assign(new, null) /\ "producer_configuration" \in new /\ new \cap null = {}
          /\ named' \in SUBSET Roles /\ named' \ {"producer"} = named \ {"producer"}
          /\ "producer" \in named' => new = ProducerGlobals
    <2>1. named \cup {"producer"} \in SUBSET Roles /\ named \ {"producer"} \in SUBSET Roles
      BY DEF IInv, TypeOK, Roles
    <2>2. PICK failed \in SUBSET {"kafka_producer"} :
            \/ /\ Assign(ProducerGlobals \ (failed \cup {"producer_topic_configuration"}), failed)
               /\ Named("producer", FALSE)
            \/ /\ Assign(ProducerGlobals \ failed, failed)
               /\ \E ok \in BOOLEAN : (ok => failed = {}) /\ Named("producer", ok)
      BY DEF ConfigureProducer
    <2>3. failed \subseteq ProducerGlobals
      BY GlobalsKnown
    <2>4. "producer_configuration" \notin failed \cup {"producer_topic_configuration"}
      OBVIOUS
    <2>5. CASE /\ Assign(ProducerGlobals \ (failed \cup {"producer_topic_configuration"}), failed)
               /\ Named("producer", FALSE)
      BY <2>1, <2>3, <2>4, <2>5, GlobalsKnown DEF Named
    <2>6. CASE /\ Assign(ProducerGlobals \ failed, failed)
               /\ \E ok \in BOOLEAN : (ok => failed = {}) /\ Named("producer", ok)
      <3>1. \/ named' = named \cup {"producer"} /\ failed = {}
            \/ named' = named \ {"producer"}
        BY <2>6 DEF Named
      <3>2. "producer" \in named' => ProducerGlobals \ failed = ProducerGlobals
        BY <3>1
      <3> QED
        BY <2>1, <2>3, <2>4, <2>6, <3>1, <3>2, GlobalsKnown
    <2> QED
      BY <2>2, <2>5, <2>6
  <1>2. /\ made["producer_configuration"] < MaxConfigures
        /\ UNCHANGED <<topics, topicVars, messages, shutdowns, broken>> /\ broken = Intact
    BY DEF ConfigureProducer, Idle
  <1>3. /\ pointer' \in [Globals -> 0 .. MaxConfigures]
        /\ made' \in [Globals -> 0 .. MaxConfigures]
        /\ alive' \in [Globals -> SUBSET (1 .. MaxConfigures)]
        /\ Counted' /\ Kept'
        /\ \A g \in ConsumerGlobals : pointer'[g] = pointer[g] /\ alive'[g] = alive[g]
        /\ \A g \in new \ null : pointer'[g] \in alive'[g]
        /\ (\A g \in Globals : ~Dangling(g)) => \A g \in Globals : ~Dangling(g)'
    BY <1>1, <1>2, AssignKeeps, GlobalsKnown
  <1>4. TypeOK'
    BY <1>1, <1>2, <1>3 DEF IInv, TypeOK, topicVars, messages
  <1>5. Usable'
    <2>1. "producer" \in named' => \A g \in ProducerGlobals : pointer'[g] \in alive'[g]
      BY <1>1, <1>3
    <2>2. "consumer" \in named' => \A g \in ConsumerGlobals : pointer'[g] \in alive'[g]
      BY <1>1, <1>3 DEF IInv, Usable
    <2> QED
      BY <1>2, <1>3, <2>1, <2>2 DEF IInv, Usable
  <1>6. Listed' /\ SubscribedAsTold' /\ NoStrayUse'
    <2>1. NoStrayUse'
      BY <1>1, <1>2 DEF NoStrayUse, Intact, Roles
    <2> QED
      BY <1>2, <2>1 DEF IInv, Listed, SubscribedAsTold, Accepts, topicVars
  <1> QED
    BY <1>3, <1>4, <1>5, <1>6 DEF IInv

-----------------------------------------------------------------------------
(* shutdown() and the calls of a role.                                     *)

LEMMA ShutdownKeeps == ASSUME IInv, Shutdown PROVE IInv'
  <1>1. /\ alive' = [g \in Globals |-> IF Deletes(g) THEN alive[g] \ {pointer[g]} ELSE alive[g]]
        /\ named' = {} /\ shutdowns' = shutdowns + 1 /\ shutdowns < MaxShutdowns
        /\ broken' = IF \E g \in Globals : Deletes(g) /\ Dangling(g)
                     THEN [by |-> "shutdown", met |-> "deleted"] ELSE broken
        /\ UNCHANGED <<pointer, made, topics, topicVars, messages>> /\ broken = Intact
    BY DEF Shutdown, Idle
  <1>2. shutdowns \in Nat /\ MaxShutdowns \in Nat
    BY KafkaAssumption DEF IInv, TypeOK
  <1>3. alive' \in [Globals -> SUBSET (1 .. MaxConfigures)] /\ \A g \in Globals : alive'[g] \subseteq alive[g]
    BY <1>1 DEF IInv, TypeOK
  <1>4. TypeOK'
    <2>1. broken' \in {Intact} \cup [by : Roles \cup {"shutdown"}, met : {"null", "deleted"}]
      BY <1>1
    <2>2. shutdowns' \in 0 .. MaxShutdowns
      BY <1>1, <1>2
    <2> QED
      BY <1>1, <1>3, <2>1, <2>2 DEF IInv, TypeOK, topicVars, messages
  <1>5. Counted' /\ Kept'
    BY <1>1, <1>3 DEF IInv, Counted, Kept
  <1>6. Usable'
    BY <1>1, <1>2 DEF Usable
  <1>7. NoStrayUse'
    <2>1. CASE \E g \in Globals : Deletes(g) /\ Dangling(g)
      <3>1. shutdowns # 0
        BY <2>1 DEF IInv, Usable
      <3>2. shutdowns' > 1
        BY <1>1, <1>2, <3>1
      <3> QED
        BY <1>1, <1>2, <2>1, <3>2 DEF NoStrayUse
    <2>2. CASE ~ \E g \in Globals : Deletes(g) /\ Dangling(g)
      BY <1>1, <2>2 DEF NoStrayUse, Intact
    <2> QED
      BY <2>1, <2>2
  <1>8. Listed' /\ SubscribedAsTold'
    BY <1>1 DEF IInv, Listed, SubscribedAsTold, Accepts, topicVars
  <1> QED
    BY <1>4, <1>5, <1>6, <1>7, <1>8 DEF IInv

\* Only a role without a name meets what is null or deleted; deleted objects there are
\* after a shutdown() only.
LEMMA StrayKeeps == ASSUME IInv, NEW r \in Roles, Stray(r) PROVE IInv'
  <1>1. PICK g \in Creator(r) :
          /\ pointer[g] \notin alive[g]
          /\ broken' = [by |-> r, met |-> IF pointer[g] = 0 THEN "null" ELSE "deleted"]
    BY DEF Stray, Sound
  <1>2. UNCHANGED <<objects, topics, named, topicVars, messages, shutdowns>>
    BY DEF Stray
  <1>3. g \in Globals /\ r \notin named
    BY <1>1, GlobalsKnown DEF IInv, Usable, Roles, Creator, Handle
  <1>4. broken'.by = r /\ (broken'.met = "deleted" => pointer[g] # 0)
    BY <1>1
  <1>5. pointer[g] # 0 => shutdowns > 0
    <2>1. shutdowns \in Nat
      BY KafkaAssumption DEF IInv, TypeOK
    <2> QED
      BY <1>1, <1>3, <2>1 DEF IInv, Usable, Dangling
  <1>6. NoStrayUse'
    BY <1>2, <1>3, <1>4, <1>5 DEF NoStrayUse, Roles
  <1>7. broken' \in [by : Roles \cup {"shutdown"}, met : {"null", "deleted"}]
    BY <1>1
  <1>8. TypeOK' /\ Counted' /\ Usable' /\ Kept'
    BY <1>2, <1>7 DEF IInv, TypeOK, Counted, Usable, Kept, Dangling, objects, topicVars, messages
  <1>9. Listed' /\ SubscribedAsTold'
    BY <1>2 DEF IInv, Listed, SubscribedAsTold, Accepts, topicVars
  <1> QED
    BY <1>6, <1>8, <1>9 DEF IInv

\* A call that leaves the pointers and the list alone.
LEMMA CallKeeps ==
  ASSUME IInv, UNCHANGED <<objects, named, topicVars, shutdowns, broken>>,
         topics' \in [Roles -> 0 .. MaxLost], undeleted' \in 0 .. MaxLost,
         log' \in [Topics -> 0 .. MaxLog], position' \in [Topics -> 0 .. MaxLog], consuming' \in BOOLEAN
  PROVE  IInv'
  <1>1. TypeOK' /\ Counted' /\ Usable' /\ Kept'
    BY DEF IInv, TypeOK, Counted, Usable, Kept, Dangling, objects, topicVars
  <1>2. Listed' /\ NoStrayUse' /\ SubscribedAsTold'
    BY DEF IInv, Listed, NoStrayUse, SubscribedAsTold, Accepts, topicVars
  <1> QED
    BY <1>1, <1>2 DEF IInv

LEMMA Counting == \A n \in 0 .. MaxLost : OneMore(n) \in 0 .. MaxLost
  BY KafkaAssumption DEF OneMore

LEMMA RoleCallKeeps ==
  ASSUME IInv, \/ Consume \/ Poll \/ FailedRound
               \/ \E t \in Topics : CreateProducerTopic(t)
               \/ \E t \in Topics \ Invalid : Produce(t) \/ Arrive(t)
  PROVE  IInv'
  <1>1. UNCHANGED <<objects, named, topicVars, shutdowns, broken>> /\ consuming' \in BOOLEAN
    BY DEF Consume, Poll, FailedRound, CreateProducerTopic, Produce, Arrive, IInv, TypeOK, messages
  <1>2. topics' \in [Roles -> 0 .. MaxLost] /\ undeleted' \in 0 .. MaxLost
    <2>1. topics \in [Roles -> 0 .. MaxLost] /\ undeleted \in 0 .. MaxLost
      BY DEF IInv, TypeOK
    <2>2. [topics EXCEPT !["producer"] = OneMore(@)] \in [Roles -> 0 .. MaxLost]
      BY <2>1, Counting DEF Roles
    <2>3. OneMore(undeleted) \in 0 .. MaxLost
      BY <2>1, Counting
    <2> QED
      BY <2>1, <2>2, <2>3
      DEF Consume, Poll, FailedRound, CreateProducerTopic, Produce, Arrive, messages
  <1>3. log' \in [Topics -> 0 .. MaxLog] /\ position' \in [Topics -> 0 .. MaxLog]
    <2>1. CASE Consume \/ FailedRound \/ \E t \in Topics : CreateProducerTopic(t)
      BY <2>1 DEF Consume, FailedRound, CreateProducerTopic, messages, IInv, TypeOK
    <2>2. CASE Poll
      <3>1. PICK t \in subscription : HasMessage(t) /\ position' = [position EXCEPT ![t] = @ + 1]
        BY <2>2 DEF Poll
      <3>2. t \in Topics /\ position[t] + 1 \in 0 .. MaxLog
        BY <3>1, KafkaAssumption DEF HasMessage, IInv, TypeOK
      <3> QED
        BY <2>2, <3>1, <3>2 DEF Poll, IInv, TypeOK
    <2>3. CASE \E t \in Topics \ Invalid : Produce(t) \/ Arrive(t)
      <3>1. UNCHANGED position
        BY <2>3 DEF Produce, Arrive
      <3>2. UNCHANGED log \/ \E t \in Topics : log[t] < MaxLog /\ log' = [log EXCEPT ![t] = @ + 1]
        BY <2>3 DEF Produce, Arrive
      <3>3. log \in [Topics -> 0 .. MaxLog] /\ position \in [Topics -> 0 .. MaxLog]
        BY DEF IInv, TypeOK
      <3>4. \A t \in Topics : log[t] < MaxLog => log[t] + 1 \in 0 .. MaxLog
        BY <3>3, KafkaAssumption
      <3>5. log' \in [Topics -> 0 .. MaxLog]
        BY <3>2, <3>3, <3>4
      <3> QED
        BY <3>1, <3>3, <3>5
    <2> QED
      BY <2>1, <2>2, <2>3
  <1> QED
    BY <1>1, <1>2, <1>3, CallKeeps

-----------------------------------------------------------------------------
(* Topics.                                                                 *)

\* The list grows by t, and is the subscription unless librdkafka refuses it.
LEMMA GrowKeeps ==
  ASSUME IInv, NEW t \in Topics, Len(list) < MaxListed, list' = Append(list, t), Resubscribe(list'),
         told' \subseteq told \cup {t},
         created' \subseteq IF Accepts(list') THEN created \cup {t} ELSE created,
         topics' \in [Roles -> 0 .. MaxLost],
         UNCHANGED <<objects, named, messages, shutdowns, broken>>
  PROVE  IInv'
  <1>1. /\ list' \in Seq(Topics) /\ Len(list') <= MaxListed
        /\ ToSet(list') = ToSet(list) \cup {t} /\ ToSet(list') \subseteq Topics
    <2>1. list \in Seq(Topics)
      BY DEF IInv, TypeOK
    <2>2. list' \in Seq(Topics) /\ Len(list') = Len(list) + 1 /\ Len(list) \in Nat
      BY <2>1
    <2>3. ToSet(list') \subseteq Topics
      BY <2>2 DEF ToSet
    <2> QED
      BY <2>1, <2>2, <2>3, ToSetAppend, KafkaAssumption
  <1>2. told' \cup created' \subseteq ToSet(list')
    BY <1>1 DEF IInv, Listed
  <1>3. subscription' = IF Accepts(list') THEN ToSet(list') ELSE subscription
    BY DEF Resubscribe
  <1>4. SubscribedAsTold'
    BY <1>2, <1>3 DEF IInv, SubscribedAsTold, Accepts
  <1>5. TypeOK'
    BY <1>1, <1>2, <1>3 DEF IInv, TypeOK, objects, messages
  <1>6. Counted' /\ Usable' /\ Kept'
    BY DEF IInv, Counted, Usable, Kept, Dangling, objects
  <1> QED
    BY <1>2, <1>4, <1>5, <1>6 DEF IInv, Listed, NoStrayUse

LEMMA SubscribeKeeps == ASSUME IInv, NEW t \in Topics, Subscribe(t) PROVE IInv'
  BY GrowKeeps DEF Subscribe, IInv, TypeOK

LEMMA CreateConsumerTopicKeeps == ASSUME IInv, NEW t \in Topics, CreateConsumerTopic(t) PROVE IInv'
  <1>1. topics \in [Roles -> 0 .. MaxLost]
        /\ [topics EXCEPT !["consumer"] = OneMore(@)] \in [Roles -> 0 .. MaxLost]
    BY Counting DEF IInv, TypeOK, Roles
  <1>2. CASE t \in Invalid
    BY <1>1, <1>2, CallKeeps DEF CreateConsumerTopic, topicVars, messages, IInv, TypeOK
  <1>3. CASE t \notin Invalid
    BY <1>1, <1>3, GrowKeeps DEF CreateConsumerTopic
  <1> QED
    BY <1>2, <1>3

-----------------------------------------------------------------------------
LEMMA IInvNext == ASSUME IInv, [Next]_vars PROVE IInv'
  <1>1. CASE UNCHANGED vars
    BY <1>1, CallKeeps DEF vars, messages, IInv, TypeOK
  <1>2. CASE Next
    BY <1>2, ShutdownKeeps, StrayKeeps, ConfigureConsumerKeeps, ConfigureProducerKeeps, RoleCallKeeps,
       SubscribeKeeps, CreateConsumerTopicKeeps DEF Next
  <1> QED
    BY <1>1, <1>2

\* The pointers, the list and the subscription fit together whatever the script calls.
THEOREM KafkaInvariance == Spec => []IInv
  BY IInvInit, IInvNext, PTL DEF Spec

\* The variables have their types.
COROLLARY KafkaTypeCorrect == Spec => []TypeOK
  <1>1. IInv => TypeOK
    BY DEF IInv
  <1> QED
    BY <1>1, KafkaInvariance, PTL

\* From the configure() that named it until shutdown() a role meets no deleted object and no null
\* pointer; deleted objects are met after a shutdown() only, by shutdown() from the second on.
COROLLARY NamedRolesAreSound == Spec => []NoStrayUse
  <1>1. IInv => NoStrayUse
    BY DEF IInv
  <1> QED
    BY <1>1, KafkaInvariance, PTL

\* Topics named by create() are subscribed; those named by subscribe() while the list is accepted.
COROLLARY TopicsSubscribed == Spec => []SubscribedAsTold
  <1>1. IInv => SubscribedAsTold
    BY DEF IInv
  <1> QED
    BY <1>1, KafkaInvariance, PTL

LEMMA ShutdownReleases ==
  ASSUME IInv, [Next]_vars, shutdowns' > shutdowns
  PROVE  /\ made["consumer_configuration"] <= 1 => \A g \in ConsumerGlobals : alive'[g] = {}
         /\ made["producer_configuration"] <= 1 => \A g \in ProducerGlobals : alive'[g] = {}
  <1>1. shutdowns \in Nat
    BY KafkaAssumption DEF IInv, TypeOK
  <1>2. Shutdown
    <2>1. ~UNCHANGED shutdowns
      BY <1>1
    <2> QED
      BY <2>1 DEF Next, ConfigureConsumer, ConfigureProducer, Stray, Consume, Poll, FailedRound,
                  Subscribe, CreateConsumerTopic, CreateProducerTopic, Produce, Arrive, vars
  <1>3. \A g \in Globals : alive'[g] = IF pointer[g] # 0 THEN alive[g] \ {pointer[g]} ELSE alive[g]
    BY <1>2 DEF Shutdown, Deletes
  <1>4. \A g \in Globals : 0 \notin alive[g]
    BY DEF IInv, TypeOK
  <1>5. \A g \in Globals : made[FirstMade[g]] <= 1 => alive'[g] = {}
    BY <1>3, <1>4 DEF IInv, Kept
  <1> QED
    BY <1>5, GlobalsKnown

\* shutdown() leaves of a role that was configured at most once no configuration and no handle: nothing
\* but the Topic objects of create().
THEOREM ShutdownReleasesRoles == Spec => Released
  BY ShutdownReleases, KafkaInvariance, PTL DEF Spec, Released
=============================================================================
