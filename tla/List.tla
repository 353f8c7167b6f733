-------------------------------- MODULE List --------------------------------
(***************************************************************************)
(* The circular doubly linked lists of kernel/list.h.  Each operation acts *)
(* on the pointers l.next and l.prev of heads and nodes; lists is what the *)
(* operation means, a sequence of nodes for every head.                    *)
(***************************************************************************)
EXTENDS Integers, Sequences, FiniteSets, SequencesExt

CONSTANTS Heads, Nodes, None

VARIABLES
  l,       \* the pointers
  lists,   \* for each head, the nodes on its list
  valid,   \* heads that are initialized
  clean,   \* nodes on no list that INIT_LIST_HEAD() has been applied to
  iter     \* a list_for_each_safe() in progress: head, node, safe, visited

vars == <<l, lists, valid, clean, iter>>

All == Heads \cup Nodes
OnList(n) == \E h \in valid : n \in Range(lists[h])
Quiet == iter = None

-----------------------------------------------------------------------------
(* The functions of list.h on pointers p = [next, prev]: every line is one   *)
(* assignment, in the order of the code.                                     *)

SetNext(p, a, b) == [p EXCEPT !.next[a] = b]
SetPrev(p, a, b) == [p EXCEPT !.prev[a] = b]

INIT_LIST_HEAD(p, h) == SetPrev(SetNext(p, h, h), h, h)

\* list_add() that reads head->next after it has changed it.
list_add_late(p, node, head) ==
  LET p1 == SetNext(p, head, node)
      next == p1.next[head]
      p2 == SetPrev(p1, next, node)
  IN SetPrev(SetNext(p2, node, next), node, head)

list_add(p, node, head) ==
  LET next == p.next[head]
      p1 == SetPrev(p, next, node)
      p2 == SetNext(p1, node, next)
      p3 == SetPrev(p2, node, head)
  IN SetNext(p3, head, node)

list_add_tail(p, node, head) ==
  LET prev == p.prev[head]
      p1 == SetNext(p, prev, node)
      p2 == SetNext(p1, node, head)
      p3 == SetPrev(p2, node, prev)
  IN SetPrev(p3, head, node)

list_del(p, node) ==
  LET next == p.next[node]
      prev == p.prev[node]
  IN SetNext(SetPrev(p, next, prev), prev, next)

list_empty(p, head) == p.next[head] = head

\* list_is_singular() without the test for an empty list.
list_is_singular_short(p, head) == p.prev[head] = p.next[head]

list_is_singular(p, head) == ~list_empty(p, head) /\ p.prev[head] = p.next[head]

list_splice(p, list, head) ==
  LET head_first == p.next[head]
      list_first == p.next[list]
      list_last == p.prev[list]
      p1 == SetPrev(SetNext(p, head, list_first), list_first, head)
  IN IF list_empty(p, list) THEN p
     ELSE SetPrev(SetNext(p1, list_last, head_first), head_first, list_last)

list_splice_tail(p, list, head) ==
  LET head_last == p.prev[head]
      list_first == p.next[list]
      list_last == p.prev[list]
      p1 == SetNext(SetPrev(p, head, list_last), list_last, head)
  IN IF list_empty(p, list) THEN p
     ELSE SetNext(SetPrev(p1, list_first, head_last), head_last, list_first)

list_cut_position(p, to, from, node) ==
  LET from_first == p.next[from]
      p1 == SetNext(p, from, p.next[node])
      p2 == SetPrev(p1, p1.next[from], from)
      p3 == SetNext(SetPrev(p2, to, node), node, to)
      p4 == SetNext(p3, to, from_first)
  IN IF list_empty(p, from) THEN p
     ELSE IF from = node THEN INIT_LIST_HEAD(p, to)
     ELSE SetPrev(p4, p4.next[to], to)

-----------------------------------------------------------------------------
(* Calls that respect what list.h asks of its callers. *)

Init ==
  /\ l = [next |-> [x \in All |-> x], prev |-> [x \in All |-> x]]
  /\ lists = [h \in Heads |-> <<>>]
  /\ valid = Heads /\ clean = Nodes /\ iter = None

\* list_add(), list_add_tail() of a node on no list, initialized or not.
Add(n, h, tail) ==
  /\ Quiet /\ h \in valid /\ ~OnList(n)
  /\ l' = IF tail THEN list_add_tail(l, n, h) ELSE list_add(l, n, h)
  /\ lists' = [lists EXCEPT ![h] = IF tail THEN Append(@, n) ELSE <<n>> \o @]
  /\ clean' = clean \ {n}
  /\ UNCHANGED <<valid, iter>>

\* list_add() after a node m of the list rather than its head.
AddAfter(n, m, h) ==
  /\ Quiet /\ h \in valid /\ ~OnList(n) /\ m \in Range(lists[h])
  /\ l' = list_add(l, n, m)
  /\ lists' = [lists EXCEPT ![h] = LET k == CHOOSE j \in DOMAIN @ : @[j] = m
                                   IN SubSeq(@, 1, k) \o <<n>> \o SubSeq(@, k + 1, Len(@))]
  /\ clean' = clean \ {n}
  /\ UNCHANGED <<valid, iter>>

\* list_del() or list_del_init() of a node on a list or initialized.
Del(n, init) ==
  /\ Quiet /\ (OnList(n) \/ n \in clean)
  /\ l' = IF init THEN INIT_LIST_HEAD(list_del(l, n), n) ELSE list_del(l, n)
  /\ lists' = [h \in Heads |-> Remove(lists[h], n)]
  /\ clean' = IF init THEN clean \cup {n} ELSE clean \ {n}
  /\ UNCHANGED <<valid, iter>>

\* list_move(), list_move_tail().
Move(n, h, tail) ==
  /\ Quiet /\ h \in valid /\ OnList(n)
  /\ l' = IF tail THEN list_add_tail(list_del(l, n), n, h) ELSE list_add(list_del(l, n), n, h)
  /\ lists' = [g \in Heads |-> LET s == Remove(lists[g], n) IN
                IF g # h THEN s ELSE IF tail THEN Append(s, n) ELSE <<n>> \o s]
  /\ UNCHANGED <<valid, clean, iter>>

\* list_splice(), list_splice_tail(): afterwards the head list is invalid,
\* unless it was empty or the _init variant is used.
Splice(list, h, tail, init) ==
  LET p == IF tail THEN list_splice_tail(l, list, h) ELSE list_splice(l, list, h) IN
  /\ Quiet /\ {list, h} \subseteq valid /\ list # h
  /\ l' = IF init THEN INIT_LIST_HEAD(p, list) ELSE p
  /\ lists' = [lists EXCEPT ![h] = IF tail THEN @ \o lists[list] ELSE lists[list] \o @,
                            ![list] = <<>>]
  /\ valid' = IF init \/ lists[list] = <<>> THEN valid ELSE valid \ {list}
  /\ UNCHANGED <<clean, iter>>

\* INIT_LIST_HEAD() of a head that is invalid.
Reinit(h) ==
  /\ Quiet /\ h \notin valid
  /\ l' = INIT_LIST_HEAD(l, h)
  /\ valid' = valid \cup {h}
  /\ UNCHANGED <<lists, clean, iter>>

\* list_cut_position() at the k-th node, or at the head itself for k = 0.  The
\* list of to is replaced, so it has no nodes to lose; it may be invalid.
Cut(to, from, k) ==
  LET s == lists[from] IN
  /\ Quiet /\ from \in valid /\ to # from /\ lists[to] = <<>> /\ k \in 0..Len(s)
  /\ l' = list_cut_position(l, to, from, IF k = 0 THEN from ELSE s[k])
  /\ lists' = [lists EXCEPT ![to] = SubSeq(s, 1, k), ![from] = SubSeq(s, k + 1, Len(s))]
  /\ valid' = IF s = <<>> THEN valid ELSE valid \cup {to}
  /\ UNCHANGED <<clean, iter>>

\* list_for_each_safe(): node and the one after it.
EachStart(h) ==
  /\ Quiet /\ h \in valid
  /\ iter' = [head |-> h, node |-> l.next[h], safe |-> l.next[l.next[h]],
              todo |-> lists[h], body |-> TRUE]
  /\ UNCHANGED <<l, lists, valid, clean>>

\* The body of the loop removes the node, with list_del() or list_del_init().
EachDel(init) ==
  /\ ~Quiet
  /\ iter.node # iter.head /\ iter.body
  /\ l' = IF init THEN INIT_LIST_HEAD(list_del(l, iter.node), iter.node) ELSE list_del(l, iter.node)
  /\ lists' = [lists EXCEPT ![iter.head] = Remove(@, iter.node)]
  /\ iter' = [iter EXCEPT !.body = FALSE]
  /\ clean' = IF init THEN clean \cup {iter.node} ELSE clean
  /\ UNCHANGED valid

\* list_for_each(): the next node is read after the body.
NextSafeLate(node, safe) == l.next[node]

\* list_for_each_safe(): the next node is the one read before the body.
NextSafe(node, safe) == safe

\* node = safe, safe = node->next.
EachNext ==
  /\ ~Quiet
  /\ iter.node # iter.head
  /\ LET node == NextSafe(iter.node, iter.safe) IN
     iter' = [iter EXCEPT !.node = node, !.safe = l.next[node], !.todo = Tail(@), !.body = TRUE]
  /\ UNCHANGED <<l, lists, valid, clean>>

EachEnd ==
  /\ ~Quiet
  /\ iter.node = iter.head
  /\ iter' = None
  /\ UNCHANGED <<l, lists, valid, clean>>

Next ==
  \/ \E n \in Nodes, h \in Heads, tail \in BOOLEAN : Add(n, h, tail) \/ Move(n, h, tail)
  \/ \E n, m \in Nodes, h \in Heads : AddAfter(n, m, h)
  \/ \E n \in Nodes, init \in BOOLEAN : Del(n, init)
  \/ \E list, h \in Heads, tail, init \in BOOLEAN : Splice(list, h, tail, init)
  \/ \E h \in Heads : Reinit(h) \/ EachStart(h)
  \/ \E to, from \in Heads, k \in 0..Cardinality(Nodes) : Cut(to, from, k)
  \/ \E init \in BOOLEAN : EachDel(init)
  \/ EachNext \/ EachEnd

Spec == Init /\ [][Next]_vars

-----------------------------------------------------------------------------
(* Properties *)

TypeOK ==
  /\ l.next \in [All -> All] /\ l.prev \in [All -> All]
  /\ valid \subseteq Heads /\ clean \subseteq Nodes

\* The pointers of a valid head go through exactly the nodes of its list, in
\* order, forwards and backwards, and back to the head; an initialized node
\* points to itself.  No sequence of calls, including moves within a list,
\* splices of empty lists and cuts at either end, breaks the circle or lets
\* two lists share a node.
WellLinked ==
  /\ \A h \in valid :
       LET c == <<h>> \o lists[h] \o <<h>> IN
       \A k \in 1..Len(c) - 1 : l.next[c[k]] = c[k + 1] /\ l.prev[c[k + 1]] = c[k]
  /\ \A n \in clean : l.next[n] = n /\ l.prev[n] = n

\* list_empty() and list_is_singular() tell lists of no and of one node.
TestsAreRight ==
  \A h \in valid :
    /\ list_empty(l, h) <=> lists[h] = <<>>
    /\ list_is_singular(l, h) <=> Len(lists[h]) = 1

\* list_for_each_safe() visits the nodes that were on the list when it began,
\* each once and in order, although its body removes some of them.
EachVisitsAll ==
  ~Quiet => IF iter.todo = <<>> THEN iter.node = iter.head ELSE iter.node = Head(iter.todo)
=============================================================================
