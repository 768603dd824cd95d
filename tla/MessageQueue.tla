----------------------------- MODULE MessageQueue -----------------------------
(***************************************************************************)
(* The class wfc::pubsub::message_queue (libpubsub/pubsub/message_queue)   *)
(* as operators on the value of one queue object, a record of              *)
(*                                                                         *)
(*   msgs             _queue, the deque of stored messages                 *)
(*   sequenced        _sequenced_flag                                      *)
(*   lastRemoveDeath  _last_remove_death                                   *)
(*   removed          _removed                                             *)
(*                                                                         *)
(* Every method of the class that changes the object is an operator that   *)
(* returns the new record; MessageQueueSpec specifies a queue in use.      *)
(***************************************************************************)
EXTENDS Messages, Sequences, FiniteSets, FiniteSetsExt, SequencesExt

(***************************************************************************)
(* std::deque.  Keep(s, I) is what is left of s when every element whose   *)
(* position is not in I is erased: SelectSeq by positions, written without *)
(* recursion so that it can be reasoned about.                             *)
(***************************************************************************)
Rank(I, i) == Cardinality({j \in I : j <= i})

Nth(I, k) == CHOOSE i \in I : Rank(I, i) = k

Keep(s, I) == [k \in 1 .. Cardinality(I) |-> s[Nth(I, k)]]

\* std::lower_bound and std::upper_bound with f_cursor_less.
LowerBound(s, c) == Min({i \in DOMAIN s : c <= s[i].cursor} \cup {Len(s) + 1})

UpperBound(s, c) == Min({i \in DOMAIN s : c < s[i].cursor} \cup {Len(s) + 1})

-----------------------------------------------------------------------------
EmptyQueue == [msgs |-> <<>>, sequenced |-> TRUE, lastRemoveDeath |-> 0, removed |-> 0]

QueueType ==
  [msgs : Seq(Message), sequenced : BOOLEAN, lastRemoveDeath : Int, removed : Nat]

\* The order of the deque: by cursor, and by arrival among equal cursors.
Ordered(s) ==
  \A i, j \in DOMAIN s : i < j =>
    \/ s[i].cursor < s[j].cursor
    \/ s[i].cursor = s[j].cursor /\ s[i].arrival < s[j].arrival

\* What the flag stands for: the messages die together.
DieTogether(s) == \A i, j \in DOMAIN s : Deathtime(s[i]) = Deathtime(s[j])

\* The test remove_death applies to see whether the order is restored.
Sequenced(s) ==
  \A i \in 1 .. Len(s) - 1 : /\ Deathtime(s[i]) = Deathtime(s[i+1])
                             /\ s[i].birthtime <= s[i+1].birthtime

Live(s, now) == {i \in DOMAIN s : ~ Dead(s[i], now)}

\* Mistake: the flag is not looked at, only the front of the deque is.
PopDeadFront(q, now) ==
  LET front == Keep(q.msgs, {i \in DOMAIN q.msgs : \E j \in Live(q.msgs, now) : j <= i})
  IN  [q EXCEPT !.msgs = front, !.removed = @ + (Len(q.msgs) - Len(front))]

(***************************************************************************)
(* remove_death(now): the dead prefix is popped; the rest of the queue is  *)
(* swept only while the flag says that it may not be sequenced, and the    *)
(* flag is computed anew only if that sweep saw a non-empty queue and      *)
(* something was removed.                                                  *)
(***************************************************************************)
RemoveDeath(q, now) ==
  LET front == Keep(q.msgs, {i \in DOMAIN q.msgs : \E j \in Live(q.msgs, now) : j <= i})
      sweep == ~ q.sequenced /\ front # <<>>
      rest  == IF sweep THEN Keep(front, Live(front, now)) ELSE front
  IN  [q EXCEPT !.msgs      = rest,
                !.removed   = @ + (Len(q.msgs) - Len(rest)),
                !.sequenced = IF sweep /\ Len(rest) # Len(q.msgs) THEN Sequenced(rest) ELSE @]

\* Mistake: the sizes before and after are taken the wrong way round.
ResizeMiscounted(q, limit) ==
  LET kept == Keep(q.msgs, {i \in DOMAIN q.msgs : i > Len(q.msgs) - limit})
  IN  [q EXCEPT !.msgs = kept, !.removed = @ + (Len(kept) - Len(q.msgs))]

\* resize(limit): what exceeds limit is erased from the front.
Resize(q, limit) ==
  LET kept == Keep(q.msgs, {i \in DOMAIN q.msgs : i > Len(q.msgs) - limit})
  IN  [q EXCEPT !.msgs = kept, !.removed = @ + (Len(q.msgs) - Len(kept))]

Clear(q) == [q EXCEPT !.msgs = <<>>]

ResetRemoved(q) == [q EXCEPT !.removed = 0]     \* get_removed(true)

-----------------------------------------------------------------------------
(***************************************************************************)
(* publish_ and insert_: m goes behind every message whose cursor is not   *)
(* greater, it is born now if it carries no birthtime, and the flag is     *)
(* kept only if both neighbours die when m does.                           *)
(***************************************************************************)
Publish_(q, now, m) ==
  LET p == UpperBound(q.msgs, m.cursor)
      s == InsertAt(q.msgs, p, Born(m, now))
  IN  [q EXCEPT
        !.msgs = s,
        !.sequenced = /\ @
                      /\ p > 1 => /\ Deathtime(s[p-1]) = Deathtime(s[p])
                                  /\ s[p-1].birthtime <= now
                      /\ p < Len(s) => /\ Deathtime(s[p+1]) = Deathtime(s[p])
                                       /\ s[p+1].birthtime >= now]

Matching(s, m) == {i \in DOMAIN s : s[i].identity = m.identity}

\* What modify_, update_ and remove_ do with the message itself at their end.
PublishIfLasting(q, now, m) == IF m.lifetime # 0 THEN Publish_(q, now, m) ELSE q

\* f_update_if_identity_equal and f_modify_if_identity_equal, applied to every
\* message of the deque.
UpdateEqual(s, m) ==
  [i \in DOMAIN s |-> IF i \in Matching(s, m) THEN Updated(s[i], m) ELSE s[i]]

ModifyEqual(s, m) ==
  [i \in DOMAIN s |-> IF i \in Matching(s, m) THEN Modified(s[i], m) ELSE s[i]]

\* Mistake: an update does not give up the flag.
UpdateInSequence(q, now, m) ==
  LET I == Matching(q.msgs, m)
  IN  IF I = {} THEN PublishIfLasting(q, now, m)
      ELSE [q EXCEPT !.msgs = UpdateEqual(@, m)]

Update_(q, now, m) ==
  LET I == Matching(q.msgs, m)
  IN  IF I = {} THEN PublishIfLasting(q, now, m)
      ELSE [q EXCEPT !.msgs = UpdateEqual(@, m),
                     !.sequenced = FALSE]

Modify_(q, now, m) ==
  LET I == Matching(q.msgs, m)
  IN  IF I = {} THEN PublishIfLasting(q, now, m)
      ELSE [q EXCEPT !.msgs = ModifyEqual(@, m),
                     !.sequenced = @ /\ \A i \in I : q.msgs[i].limit = m.limit]

Erase(q, m) == [q EXCEPT !.msgs = Keep(@, DOMAIN @ \ Matching(@, m))]

Remove_(q, now, m) == PublishIfLasting(Erase(q, m), now, m)

Replace_(q, now, m) == Publish_(Erase(q, m), now, m)

-----------------------------------------------------------------------------
(***************************************************************************)
(* push(now, m): at most one sweep per value of the clock; a publish with  *)
(* no lifetime or no limit is not stored (and handed back), a zero limit   *)
(* empties the queue; every other message is applied by its action and the *)
(* queue is then cut to the limit the message carries.                     *)
(***************************************************************************)
\* Mistake: a clock that went back is not looked at.
SweepForward(q, now) ==
  IF q.lastRemoveDeath >= now THEN q
  ELSE [RemoveDeath(q, now) EXCEPT !.lastRemoveDeath = now]

SweepOnce(q, now) ==
  IF q.lastRemoveDeath = now THEN q
  ELSE [RemoveDeath(q, now) EXCEPT !.lastRemoveDeath = now]

Apply(q, now, m) ==
  CASE m.action = "publish" -> Publish_(q, now, m)
    [] m.action = "modify"  -> Modify_(q, now, m)
    [] m.action = "update"  -> Update_(q, now, m)
    [] m.action = "replace" -> Replace_(q, now, m)
    [] m.action = "remove"  -> Remove_(q, now, m)

\* Mistake: the queue is cut before the message is in it.
PushAfterResize(q, now, m) ==
  LET swept == SweepOnce(q, now)
  IN  IF HandedBack(m)
      THEN IF m.limit = 0 THEN Resize(swept, 0) ELSE swept
      ELSE Apply(Resize(swept, m.limit), now, m)

Push(q, now, m) ==
  LET swept == SweepOnce(q, now)
  IN  IF HandedBack(m)
      THEN IF m.limit = 0 THEN Resize(swept, 0) ELSE swept
      ELSE Resize(Apply(swept, now, m), m.limit)

\* Mistake: the first limit messages.
CopyFirst(q, cursor, limit) ==
  LET from == LowerBound(q.msgs, cursor)
  IN  SubSeq(q.msgs, from, Min({Len(q.msgs), from + limit - 1}))

\* copy_to(cursor, limit, itr): the last limit messages from cursor on.
CopyTo(q, cursor, limit) ==
  LET s == q.msgs
      n == Len(s) + 1 - LowerBound(s, cursor)
  IN  SubSeq(s, Len(s) + 1 - Min({n, limit}), Len(s))
=============================================================================
