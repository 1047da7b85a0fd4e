----------------------------- MODULE KafkaPlugin -----------------------------
(***************************************************************************)
(* The kafka plugin (src/src/plugins/kafka/kafka.cpp): six global pointers *)
(* to objects of librdkafka, the list of the consumer's topics, and the    *)
(* calls a script makes.  librdkafka and the broker are external; the      *)
(* n-th object made for a pointer is the number n, and 0 is null.  The     *)
(* script calls in any order, whatever configure() answered.               *)
(***************************************************************************)
EXTENDS Naturals, FiniteSets, Sequences, SequencesExt

CONSTANTS
  Topics,         \* names of topics
  Invalid,        \* the names librdkafka refuses, as it does the empty one
  MaxConfigures,  \* bound of the model: calls of configure() for a role
  MaxShutdowns,   \* bound of the model: calls of shutdown()
  MaxListed,      \* bound of the model: length of consumer_topics_list
  MaxLog,         \* bound of the model: messages in a topic
  MaxLost         \* bound of the model: counts to this many lost objects

ASSUME KafkaAssumption ==
  /\ Invalid \subseteq Topics
  /\ MaxConfigures \in Nat /\ MaxShutdowns \in Nat /\ MaxListed \in Nat
  /\ MaxLog \in Nat /\ MaxLost \in Nat

ConsumerGlobals == {"consumer_configuration", "kafka_consumer", "consumer_topic_configuration"}
ProducerGlobals == {"producer_configuration", "kafka_producer", "producer_topic_configuration"}
Globals == ConsumerGlobals \cup ProducerGlobals
Roles == {"consumer", "producer"}

VARIABLES
  pointer,        \* the global pointers
  made,           \* objects made for each pointer so far
  alive,          \* those of them that are not deleted
  topics,         \* live Topic objects in consumer_topics and producer_topics, and lost from them
  named,          \* history: roles whose last configure() answered with a name, no shutdown() since
  list,           \* consumer_topics_list
  subscription,   \* librdkafka's subscription of the consumer
  told,           \* topics that subscribe() named to the script, of this consumer
  created,        \* topics that create() named to the script, of this consumer
  log,            \* length of each topic at the broker
  position,       \* messages of each topic that librdkafka has handed over
  consuming,      \* the script is inside consume()
  undeleted,      \* messages of rounds that failed, which nobody deletes
  shutdowns,      \* calls of shutdown()
  broken          \* what a call has met that ends the process, and whose call it was

objects == <<pointer, made, alive>>
topicVars == <<list, subscription, told, created>>
messages == <<log, position, consuming, undeleted>>
vars == <<objects, topics, named, topicVars, messages, shutdowns, broken>>

Intact == [by |-> "nobody", met |-> "nothing"]

TypeOK ==
  /\ pointer \in [Globals -> 0 .. MaxConfigures]
  /\ made \in [Globals -> 0 .. MaxConfigures]
  /\ alive \in [Globals -> SUBSET (1 .. MaxConfigures)]
  /\ named \subseteq Roles
  /\ list \in Seq(Topics) /\ Len(list) <= MaxListed
  /\ subscription \subseteq Topics /\ told \subseteq Topics /\ created \subseteq Topics
  /\ log \in [Topics -> 0 .. MaxLog]
  /\ position \in [Topics -> 0 .. MaxLog]
  /\ topics \in [Roles -> 0 .. MaxLost]
  /\ consuming \in BOOLEAN /\ undeleted \in 0 .. MaxLost
  /\ shutdowns \in 0 .. MaxShutdowns
  /\ broken \in {Intact} \cup [by : Roles \cup {"shutdown"}, met : {"null", "deleted"}]

Init ==
  /\ pointer = [g \in Globals |-> 0]
  /\ made = [g \in Globals |-> 0]
  /\ alive = [g \in Globals |-> {}]
  /\ topics = [r \in Roles |-> 0]
  /\ named = {}
  /\ list = <<>> /\ subscription = {} /\ told = {} /\ created = {}
  /\ log = [t \in Topics |-> 0]
  /\ position = log
  /\ consuming = FALSE /\ undeleted = 0
  /\ shutdowns = 0
  /\ broken = Intact

Idle == ~consuming /\ broken = Intact

\* One more, counted up to MaxLost.
OneMore(n) == IF n < MaxLost THEN n + 1 ELSE n

-----------------------------------------------------------------------------
(* The pointers.                                                           *)

Dangling(g) == pointer[g] # 0 /\ pointer[g] \notin alive[g]

Sound(gs) == \A g \in gs : pointer[g] \in alive[g]

\* What the calls of a role go through: the handle alone, or create() with the topic configuration.
Handle(role) == IF role = "consumer" THEN {"kafka_consumer"} ELSE {"kafka_producer"}
Creator(role) == Handle(role) \cup
  (IF role = "consumer" THEN {"consumer_topic_configuration"} ELSE {"producer_topic_configuration"})

\* Any call of a role, be it get_name() or subscription() that change nothing else, that meets a null
\* pointer or a deleted object: nothing tests for them.
Stray(role) ==
  /\ Idle
  /\ \E g \in Creator(role) :
       /\ ~Sound({g})
       /\ broken' = [by |-> role, met |-> IF pointer[g] = 0 THEN "null" ELSE "deleted"]
  /\ UNCHANGED <<objects, topics, named, topicVars, messages, shutdowns>>

\* Objects are assigned to the pointers `new`; the pointers `null` get null.  What they pointed to
\* is not deleted.
Assign_IfNull(new, null) ==                                     \* mutant
  /\ made' = [g \in Globals |-> IF g \in new THEN made[g] + 1 ELSE made[g]]
  /\ pointer' = [g \in Globals |->
       IF g \in null THEN 0 ELSE IF g \in new /\ pointer[g] = 0 THEN made[g] + 1 ELSE pointer[g]]
  /\ alive' = [g \in Globals |->
       IF g \in new THEN alive[g] \cup {made[g] + 1} ELSE alive[g]]
Assign(new, null) ==
  /\ made' = [g \in Globals |-> IF g \in new THEN made[g] + 1 ELSE made[g]]
  /\ pointer' = [g \in Globals |->
       IF g \in null THEN 0 ELSE IF g \in new THEN made[g] + 1 ELSE pointer[g]]
  /\ alive' = [g \in Globals |->
       IF g \in new THEN alive[g] \cup {made[g] + 1} ELSE alive[g]]

\* shutdown() deletes what each pointer that is not null points to, and keeps the pointers.  Of the
\* Topic objects it deletes none.
Deletes_ConsumerFirst(g) ==                                     \* mutant
  pointer[g] # 0 /\ (g \in ProducerGlobals => pointer["kafka_consumer"] # 0)
Deletes(g) == pointer[g] # 0

Shutdown ==
  /\ Idle /\ shutdowns < MaxShutdowns
  /\ broken' = IF \E g \in Globals : Deletes(g) /\ Dangling(g)
               THEN [by |-> "shutdown", met |-> "deleted"] ELSE broken
  /\ alive' = [g \in Globals |-> IF Deletes(g) THEN alive[g] \ {pointer[g]} ELSE alive[g]]
  /\ named' = {}
  /\ shutdowns' = shutdowns + 1
  /\ UNCHANGED <<pointer, made, topics, topicVars, messages>>

-----------------------------------------------------------------------------
(* Consumer.                                                               *)

\* A new consumer has no subscription; it begins where its group has committed.
NewConsumer ==
  /\ subscription' = {} /\ told' = {} /\ created' = {}
  /\ position' \in {p \in [Topics -> 0 .. MaxLog] : \A t \in Topics : p[t] <= position[t]}

KeepConsumer == UNCHANGED <<subscription, told, created, position>>

\* The disjuncts are the returns of configure(), in their order.
Named(role, ok) == named' = IF ok THEN named \cup {role} ELSE named \ {role}

ConfigureConsumer ==
  /\ Idle /\ made["consumer_configuration"] < MaxConfigures
  /\ \/ /\ Assign({"consumer_configuration"}, {})
        /\ Named("consumer", FALSE) /\ KeepConsumer
     \/ /\ Assign({"consumer_configuration"}, {"kafka_consumer"})
        /\ Named("consumer", FALSE) /\ KeepConsumer
     \/ /\ Assign(ConsumerGlobals, {})
        /\ \E ok \in BOOLEAN : Named("consumer", ok)
        /\ NewConsumer
  /\ UNCHANGED <<topics, list, log, consuming, undeleted, shutdowns, broken>>

\* librdkafka refuses a list with an invalid name or with a name twice.
Accepts(l) == ToSet(l) \cap Invalid = {} /\ Len(l) = Cardinality(ToSet(l))

\* kafka_consumer->subscribe(consumer_topics_list): the list replaces the subscription, or nothing.
\* An error is only logged.
Resubscribe_Newest(l) ==                                        \* mutant
  subscription' = IF Accepts(l) THEN {Last(l)} ELSE subscription
Resubscribe(l) == subscription' = IF Accepts(l) THEN ToSet(l) ELSE subscription

Subscribe(t) ==
  /\ Idle /\ Sound(Handle("consumer")) /\ Len(list) < MaxListed
  /\ list' = Append(list, t)
  /\ Resubscribe(list')
  /\ told' = told \cup {t}
  /\ UNCHANGED <<objects, topics, named, created, messages, shutdowns, broken>>

\* An invalid name throws before the list is touched.  Otherwise a Topic is made and kept, in place of
\* an older one of that name, which is lost; a refused list answers with no name.
CreateConsumerTopic(t) ==
  /\ Idle /\ Sound(Creator("consumer")) /\ Len(list) < MaxListed
  /\ IF t \in Invalid
     THEN UNCHANGED <<topics, list, subscription, created>>
     ELSE /\ topics' = [topics EXCEPT !["consumer"] = OneMore(@)]
          /\ list' = Append(list, t)
          /\ Resubscribe(list')
          /\ created' = IF Accepts(list') THEN created \cup {t} ELSE created
  /\ UNCHANGED <<objects, named, told, messages, shutdowns, broken>>

Consume ==
  /\ Idle /\ Sound(Handle("consumer"))
  /\ consuming' = TRUE
  /\ UNCHANGED <<objects, topics, named, topicVars, log, position, undeleted, shutdowns, broken>>

\* One round of do_consume.  librdkafka hands over a message, which is answered and deleted.
HasMessage_Error(t) == TRUE                                     \* mutant
HasMessage(t) == position[t] < log[t]

Poll ==
  /\ consuming
  /\ \E t \in subscription :
       /\ HasMessage(t)
       /\ position' = [position EXCEPT ![t] = @ + 1]
  /\ consuming' = FALSE
  /\ UNCHANGED <<objects, topics, named, topicVars, log, undeleted, shutdowns, broken>>

\* Or it hands over an error, be it that no message came in time: the next round follows, however many
\* there were and whatever retries_max says, and what was handed over is not deleted.
FailedRound ==
  /\ consuming
  /\ undeleted' = OneMore(undeleted)
  /\ UNCHANGED <<objects, topics, named, topicVars, log, position, consuming, shutdowns, broken>>

-----------------------------------------------------------------------------
(* Producer.                                                               *)

\* The callback and the topic configuration are set after the producer is created.  The error of
\* create() is still in error_string when it is tested for the first time.
ConfigureProducer ==
  /\ Idle /\ made["producer_configuration"] < MaxConfigures
  /\ \E failed \in SUBSET {"kafka_producer"} :
       \/ /\ Assign(ProducerGlobals \ (failed \cup {"producer_topic_configuration"}), failed)
          /\ Named("producer", FALSE)
       \/ /\ Assign(ProducerGlobals \ failed, failed)
          /\ \E ok \in BOOLEAN : (ok => failed = {}) /\ Named("producer", ok)
  /\ UNCHANGED <<topics, topicVars, messages, shutdowns, broken>>

CreateProducerTopic(t) ==
  /\ Idle /\ Sound(Creator("producer"))
  /\ topics' = IF t \in Invalid THEN topics ELSE [topics EXCEPT !["producer"] = OneMore(@)]
  /\ UNCHANGED <<objects, named, topicVars, messages, shutdowns, broken>>

\* librdkafka sends the message later; it gets to the broker or is lost, and no report says which.
Produce(t) ==
  /\ Idle /\ Sound(Handle("producer"))
  /\ \/ log[t] < MaxLog /\ log' = [log EXCEPT ![t] = @ + 1]
     \/ UNCHANGED log
  /\ UNCHANGED <<objects, topics, named, topicVars, position, consuming, undeleted, shutdowns, broken>>

\* Other producers.
Arrive(t) ==
  /\ log[t] < MaxLog
  /\ log' = [log EXCEPT ![t] = @ + 1]
  /\ UNCHANGED <<objects, topics, named, topicVars, position, consuming, undeleted, shutdowns, broken>>

Next ==
  \/ Shutdown \/ ConfigureConsumer \/ Consume \/ Poll \/ FailedRound
  \/ ConfigureProducer
  \/ \E r \in Roles : Stray(r)
  \/ \E t \in Topics : Subscribe(t) \/ CreateConsumerTopic(t) \/ CreateProducerTopic(t)
  \/ \E t \in Topics \ Invalid : Produce(t) \/ Arrive(t)

Spec == Init /\ [][Next]_vars

-----------------------------------------------------------------------------
(* Properties                                                              *)

\* No call of a role meets a null pointer or a deleted object from the configure() that answered with a
\* name until shutdown(), although each return of configure() leaves other pointers behind and
\* shutdown() keeps them all; deleted objects are met only after a shutdown(), and by a shutdown() only
\* from the second on.  (A script that does not look at the answer of configure() has no such promise.)
NoStrayUse ==
  /\ broken.by \notin named
  /\ broken.met = "deleted" => shutdowns > 0
  /\ broken.by = "shutdown" => shutdowns > 1

\* Of a role that was configured at most once shutdown() leaves no object behind but the Topics that
\* create() made: no consumer stays a member of its group.  A second configure() loses the objects of
\* the first.
Released ==
  [][shutdowns' > shutdowns =>
       /\ made["consumer_configuration"] <= 1 => \A g \in ConsumerGlobals : alive'[g] = {}
       /\ made["producer_configuration"] <= 1 => \A g \in ProducerGlobals : alive'[g] = {}]_vars

\* What create() names is subscribed, and stays so; what subscribe() names is subscribed as long as
\* the list that grows with every call has never held an invalid or a repeated name.
SubscribedAsTold ==
  /\ created \subseteq subscription
  /\ Accepts(list) => told \subseteq subscription

=============================================================================
