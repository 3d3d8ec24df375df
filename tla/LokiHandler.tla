---------------------------- MODULE LokiHandler ----------------------------
(* slogging/loki/loki.go: handlers derived from handlers with WithAttrs and *)
(* WithGroup, and what Handle pushes for a record.  Derived handlers share  *)
(* backing arrays the way Go's append shares them, so slices are kept as an *)
(* array and a length.  Pushing is a call that may fail without a trace.    *)
EXTENDS SequenceOps

CONSTANTS
  AttrKeys,    \* lists of attribute keys that one WithAttrs or record has
  Groups,      \* names for WithGroup
  LabelKeys,   \* HandlerConfig.LabelKeys: full keys, as sequences
  MaxHandlers  \* bound: handlers derived from the first one, and it

ASSUME LokiAssumption ==
  /\ MaxHandlers \in Nat /\ LabelKeys \subseteq Seq(STRING)
  /\ AttrKeys \subseteq Seq(STRING) /\ Groups \subseteq STRING

VARIABLES
  arrays,    \* the backing arrays, each with its capacity
  handlers,  \* the handlers made so far
  entry      \* the last entry that reached Loki

lokiVars == <<arrays, handlers, entry>>

NoEntry == [by |-> -1]
NilSlice == [array |-> 0, len |-> 0]

(* wantAttrs and wantGroups are history: what the receiver had when the     *)
(* handler was derived, and what was added.                                 *)
Root == [from |-> 0, attrs |-> NilSlice, groups |-> NilSlice, wantAttrs |-> <<>>, wantGroups |-> <<>>]

LokiInit == arrays = <<>> /\ handlers = <<Root>> /\ entry = NoEntry
LokiIdle == arrays = <<>> /\ handlers = <<>> /\ entry = NoEntry

Elems(s, heap) == IF s.array = 0 THEN <<>> ELSE SubSeq(heap[s.array].cells, 1, s.len)
Cap(s) == IF s.array = 0 THEN 0 ELSE arrays[s.array].cap

(* Go's append, below 256 elements: in place while there is room, else into *)
(* a new array of twice the capacity, or more if that is too small.         *)
Grow(s, need) == IF need > 2 * Cap(s) THEN need ELSE 2 * Cap(s)
AppendTo(s, xs) ==
  LET need == s.len + Len(xs)
      filled == Elems(s, arrays) \o xs
  IN IF s.array # 0 /\ need <= Cap(s)
     THEN [slice |-> [s EXCEPT !.len = need],
           heap |-> [arrays EXCEPT ![s.array].cells = filled \o SubSeq(@, need + 1, Len(@))]]
     ELSE [slice |-> [array |-> Len(arrays) + 1, len |-> need],
           heap |-> Append(arrays, [cap |-> Grow(s, need), cells |-> filled])]

(* The attributes that the n-th handler, or the record given to it, brings. *)
Attrs(keys, n) == [i \in DOMAIN keys |-> [key |-> keys[i], value |-> <<n, i>>]]

(* Fault: the receiver's array is filled from its beginning. *)
WithAttrsReusing(h, xs) ==
  LET a == AppendTo([handlers[h].attrs EXCEPT !.len = 0], xs) IN
  /\ arrays' = a.heap
  /\ handlers' = Append(handlers, [handlers[h] EXCEPT !.from = h, !.attrs = a.slice,
                                   !.wantAttrs = Elems(handlers[h].attrs, arrays) \o xs])

WithAttrs(h, xs) ==
  LET a == AppendTo(handlers[h].attrs, xs) IN
  /\ arrays' = a.heap
  /\ handlers' = Append(handlers, [handlers[h] EXCEPT !.from = h, !.attrs = a.slice,
                                   !.wantAttrs = Elems(handlers[h].attrs, arrays) \o xs])

WithGroup(h, name) ==
  LET g == AppendTo(handlers[h].groups, <<name>>) IN
  /\ arrays' = g.heap
  /\ handlers' = Append(handlers, [handlers[h] EXCEPT !.from = h, !.groups = g.slice,
                                   !.wantGroups = Elems(handlers[h].groups, arrays) \o <<name>>])

(* The key gets every group of the handler in front, one after the other.   *)
FullKey(groups, key) == Backwards(groups) \o <<key>>

(* Fault: a label stays in the line. *)
processAttrInBoth(groups, acc, a) ==
  LET key == FullKey(groups, a.key) IN
  IF key \in LabelKeys
  THEN [labels |-> [k \in DOMAIN acc.labels \cup {key} |-> IF k = key THEN a.value ELSE acc.labels[k]],
        line |-> Append(acc.line, [key |-> key, value |-> a.value])]
  ELSE [acc EXCEPT !.line = Append(@, [key |-> key, value |-> a.value])]

processAttr(groups, acc, a) ==
  LET key == FullKey(groups, a.key) IN
  IF key \in LabelKeys
  THEN [acc EXCEPT !.labels = [k \in DOMAIN @ \cup {key} |-> IF k = key THEN a.value ELSE @[k]]]
  ELSE [acc EXCEPT !.line = Append(@, [key |-> key, value |-> a.value])]

(* Push: the entry reaches Loki or is lost; Handle returns nil either way.  *)
Push(e) == entry' \in {e, entry}

OwnLabels == [k \in {<<"app">>, <<"level">>} |-> <<0, 0>>]

Handle(h, rec) ==
  LET groups == Elems(handlers[h].groups, arrays)
      seen == InOrder(LAMBDA acc, a : processAttr(groups, acc, a), [labels |-> OwnLabels, line |-> <<>>],
                       Elems(handlers[h].attrs, arrays) \o rec)
      labels == IF <<"service">> \in DOMAIN seen.labels THEN seen.labels
                ELSE [k \in DOMAIN seen.labels \cup {<<"service">>} |->
                        IF k = <<"service">> THEN <<0, 0>> ELSE seen.labels[k]]
  IN /\ Push([by |-> h, rec |-> rec, labels |-> labels, line |-> seen.line])
     /\ UNCHANGED <<arrays, handlers>>

(* PushLog: its own labels, the data in the order in which a map is read.   *)
PushLog(data) ==
  /\ \E order \in {p \in [DOMAIN data -> DOMAIN data] : \A i, j \in DOMAIN p : p[i] = p[j] => i = j} :
       Push([by |-> 0, rec |-> data, line |-> [i \in DOMAIN data |-> data[order[i]]], labels |-> [k \in {<<"app">>, <<"source">>, <<"level">>} |-> <<0, 0>>]])
  /\ UNCHANGED <<arrays, handlers>>

(* Entries are looked at one at a time.                                     *)
Forget == entry # NoEntry /\ entry' = NoEntry /\ UNCHANGED <<arrays, handlers>>

LokiNext ==
  \/ Forget
  \/ /\ entry = NoEntry /\ handlers # <<>>
     /\ \E keys \in AttrKeys, h \in DOMAIN handlers :
          \/ Handle(h, Attrs(keys, 0)) \/ PushLog(Attrs(keys, 0))
          \/ /\ Len(handlers) < MaxHandlers /\ UNCHANGED entry
             /\ WithAttrs(h, Attrs(keys, Len(handlers) + 1)) \/ \E name \in Groups : WithGroup(h, name)

LokiSpec == LokiInit /\ [][LokiNext]_lokiVars
----------------------------------------------------------------------------
(* Types of the handlers: no slice is longer than its array.                *)
LokiTypeOK ==
  /\ \A n \in DOMAIN arrays : arrays[n].cap \in Nat /\ Len(arrays[n].cells) <= arrays[n].cap
  /\ \A h \in DOMAIN handlers : \A s \in {handlers[h].attrs, handlers[h].groups} :
       s.array \in 0..Len(arrays) /\ s.len <= Len(Elems(s, arrays))

Sees(h) == <<Elems(handlers[h].attrs, arrays), Elems(handlers[h].groups, arrays)>>
Wants(h) == <<handlers[h].wantAttrs, handlers[h].wantGroups>>
Branches(s, t) == ~Begins(s, t) /\ ~Begins(t, s)

(* Two handlers derived in different ways from one that had room left.      *)
Forked(h) ==
  \E g \in DOMAIN handlers :
    \/ handlers[g].attrs.array = handlers[h].attrs.array /\ Branches(handlers[g].wantAttrs, handlers[h].wantAttrs)
    \/ handlers[g].groups.array = handlers[h].groups.array /\ Branches(handlers[g].wantGroups, handlers[h].wantGroups)

(* WithAttrs and WithGroup append to the receiver's slices without copying: *)
(* a handler keeps the attributes and groups it was derived with, unless    *)
(* another was derived differently out of the same backing array.           *)
OnlyForksClash == \A h \in DOMAIN handlers : Forked(h) \/ Sees(h) = Wants(h)

(* What an entry by h has to show of the handler's attributes and then of   *)
(* the record's.                                                            *)
Wanted(h, rec) ==
  LET attrs == handlers[h].wantAttrs \o rec
  IN [i \in 1..Len(attrs) |->
        [key |-> Backwards(handlers[h].wantGroups) \o <<attrs[i].key>>, value |-> attrs[i].value]]

(* The fields that are no labels, all of them and in their order.           *)
LineShows(all, line) ==
  Lists(line, all, {i \in 1..Len(all) : all[i].key \notin LabelKeys})

(* The others, the last one of each key.                                    *)
LabelsShow(all, labels) ==
  \A i \in 1..Len(all) : all[i].key \in LabelKeys =>
    \E j \in i..Len(all) : all[j].key = all[i].key /\ labels[all[i].key] = all[j].value
                           /\ \A k \in j + 1..Len(all) : all[k].key # all[i].key

(* Handle: every attribute of the handler and then of the record is in the  *)
(* entry once, as a label (the last one of its key) or in the line, in      *)
(* order; the service label is there even when no attribute gives it.       *)
EntryComplete ==
  entry.by > 0 /\ ~Forked(entry.by) =>
    LET all == Wanted(entry.by, entry.rec)
    IN /\ LineShows(all, entry.line) /\ LabelsShow(all, entry.labels)
       /\ {<<"app">>, <<"level">>, <<"service">>} \subseteq DOMAIN entry.labels
=============================================================================
