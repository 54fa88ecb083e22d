------------------------ MODULE CachedParallelQueue -------------------------
(***************************************************************************)
(* The variant of the lock-free ring in                                    *)
(* src/src/parallel/cached_parallel_queue.c, which simulate.c means to     *)
(* switch to.  Each side keeps the offset of the other that it loaded last *)
(* (cached_consumer_offset and cached_producer_offset: seen_consumer and   *)
(* seen_producer of ParallelQueue) and loads it again only when the cached *)
(* one says that the ring is full, or empty.                               *)
(*                                                                         *)
(* Besides copying an item in or out, a caller may reserve a slot, fill or *)
(* read it in place word by word, and commit it.  A reservation that is    *)
(* not committed is void: the next call starts again with the same slot.   *)
(***************************************************************************)
EXTENDS ParallelQueue

\* Mutant: on a full ring the producer takes it that one item has been
\* consumed by now and does not load.
GuessedConsumerLoads ==
  IF Full(seen_consumer) THEN {Plus(seen_consumer, 1)} ELSE {seen_consumer}

\* Mutant: the consumer does not load again what it has cached.
NoProducerLoads == {seen_producer}

\* What the check of a call may work with.
ConsumerLoads ==
  IF Full(seen_consumer) THEN Visible(seen_consumer, consumer_offset)
                         ELSE {seen_consumer}

ProducerLoads ==
  IF Empty(seen_producer) THEN Visible(seen_producer, producer_offset)
                          ELSE {seen_producer}

\* The caller does not commit what it has reserved.
ProduceAbandon ==
  /\ producing
  /\ producing' = FALSE
  /\ UNCHANGED <<buffer, consumerVars, producer_offset, seen_consumer, item,
                 stored>>

ConsumeAbandon ==
  /\ consuming
  /\ consuming' = FALSE
  /\ UNCHANGED <<buffer, producerVars, consumer_offset, seen_producer, out,
                 fetched, delivered>>

CachedProduce ==
  \/ \E c \in ConsumerLoads :
       ProduceRefuse(c) \/ \E m \in Item : ProduceBegin(c, m)
  \/ \E w \in Words : ProduceWord(w)
  \/ ProducePublish
  \/ ProduceAbandon

CachedConsume ==
  \/ \E p \in ProducerLoads : ConsumeRefuse(p) \/ ConsumeBegin(p)
  \/ \E w \in Words : ConsumeWord(w)
  \/ ConsumePublish
  \/ ConsumeAbandon

CachedNext == CachedProduce \/ CachedConsume

CachedSpec == Init /\ [][CachedNext]_vars

\* As for ParallelQueue: the consumer polls, and a load returns a new value in
\* the end.  A consumer does not for ever reserve without committing.
CachedFairness ==
  /\ WF_vars(/\ producer_offset \in ProducerLoads
             /\ ConsumeBegin(producer_offset))
  /\ WF_vars(seen_producer \in ProducerLoads /\ ConsumeBegin(seen_producer))
  /\ WF_vars(\E w \in Words : ConsumeWord(w))
  /\ WF_vars(ConsumePublish)
  /\ <>[][~ConsumeAbandon]_vars

CachedFairSpec == CachedSpec /\ CachedFairness

-----------------------------------------------------------------------------
\* The caches are safe: with offsets that may be as old as the last time the
\* ring looked full or empty, the ring never holds more than Capacity items
\* and no item that is published, or reserved for reading, is written over.
CachesAreSafe == IInv /\ NoSlotRace

\* Callers see no difference: the cached ring, with reservations made and
\* dropped at will, implements the atomic bounded queue.
CachedImplementsQueue == ImplementsQueue

\* A consumer whose cache says empty finds what is produced all the same:
\* every accepted item is delivered.
CachedIsDelivered == AcceptedIsDelivered
=============================================================================
