---------------------------- MODULE GroupManager ----------------------------
(***************************************************************************)
(* GroupManager (faceted-submanager/group_manager.cc): per group property *)
(* a PropValueTable whose idTable maps each doc id to the id of its value  *)
(* (0 for none; slot 0 is reserved), built incrementally by                *)
(* processCollection from idTable.size() up to the DocumentManager's max   *)
(* doc id, flushed to disk, and reloaded by open(). getGroupRep turns a    *)
(* result doc list into the group tree shown beside a search: each doc     *)
(* under its value and every ancestor of that value.                       *)
(*                                                                         *)
(* Values are the nodes of a fixed value tree (Parent); a value id is the  *)
(* node itself. A document is its node per property.                       *)
(***************************************************************************)
EXTENDS Integers, Sequences, FiniteSets, SequencesExt, Relation

CONSTANTS
    Props,          \* group properties
    Nodes,          \* value ids (positive integers)
    Parent,         \* Parent[n]: parent value id, 0 at the top (parentIdTable)
    TreeList,       \* the configured valueTree's item_list: [id, level] records
    MaxDoc,         \* bound on DocumentManager's max doc id
    DocValues,      \* the value assignments [Props -> Nodes \cup {0}] a document may carry
    ConfigLists,    \* GroupConfig vectors open() may be given
    NoLabel,        \* model value: getGroupRep called with groupLabel NULL
    Lists,          \* result doc lists getGroupRep may be given
    PropLists,      \* groupPropertyList arguments
    Labels,         \* groupLabel: NoLabel, or the docs checkDocExceptProp passes
    MaxThrown       \* bound on the propValueId exceptions of one build

VARIABLES
    docs,           \* docs[d][p]: doc d's value of p, 0 for none
    gone,           \* doc ids getDocument no longer finds
    opened,         \* properties in propValueMap_
    idTable,        \* idTable[p][d + 1]: value id built for doc d
    persisted       \* persisted[p]: the idTable as last flushed

vars == <<docs, gone, opened, idTable, persisted>>

maxDocId == Len(docs)

\* PropValueTable's constructor reserves id 0 for slot 0.
EmptyTable == <<0>>

PvId(p, d) == idTable[p][d + 1]

Init ==
    /\ docs = <<>>
    /\ gone = {}
    /\ opened = {}
    /\ idTable = [p \in Props |-> EmptyTable]
    /\ persisted = [p \in Props |-> EmptyTable]

\* open (lines 31-63): clear propValueMap_, then insert each configured
\* property once and load its flushed table; a property listed twice is
\* only warned about. When pvTable.open() or setValueTree() fails, open()
\* returns false with the failing property already inserted (line 39):
\* its table still empty, or loaded when only setValueTree failed.
Open(cfg) ==
    \E n \in 0..Len(cfg) :
        \* the first n entries open; entry n + 1, if any, fails
        LET ok == ToSet(SubSeq(cfg, 1, n))
            loaded == [p \in Props |-> IF p \in ok THEN persisted[p] ELSE idTable[p]]
        IN \/ /\ n = Len(cfg)
              /\ opened' = ok
              /\ idTable' = loaded
           \/ /\ n < Len(cfg)
              /\ cfg[n + 1] \notin ok
              /\ opened' = ok \cup {cfg[n + 1]}
              /\ \E badTable \in {EmptyTable, persisted[cfg[n + 1]]} :
                    idTable' = [loaded EXCEPT ![cfg[n + 1]] = badTable]
    /\ UNCHANGED <<docs, gone, persisted>>

\* The document and index managers add or remove documents between builds.
AddDocument ==
    /\ maxDocId < MaxDoc
    /\ \E vals \in DocValues : docs' = Append(docs, vals)
    /\ UNCHANGED <<gone, opened, idTable, persisted>>

RemoveDocument ==
    /\ \E d \in 1..maxDocId \ gone : gone' = gone \cup {d}
    /\ UNCHANGED <<docs, opened, idTable, persisted>>

\* The first doc id processCollection builds (line 87).
StartDocIdNoReserve(t) == Len(t) - 1
StartDocId(t) == Len(t)

\* The value id built for doc d (lines 97-127): 0 if getDocument fails (no
\* such doc, or removed), if the doc has no value on p, or if propValueId
\* throws a MiningException, which is caught and logged (<<p, d>> \in thrown).
BuiltId(p, d, thrown) ==
    IF d \notin DOMAIN docs \/ d \in gone \/ <<p, d>> \in thrown THEN 0 ELSE docs[d][p]

\* processCollection (lines 65-143): for every open property append the
\* value ids of docs startDocId .. maxDocId to its idTable, then flush it;
\* a failed flush is only logged. A createDir failure (lines 69-77)
\* returns before any change and is not a separate step.
ProcessCollection ==
    /\ \E thrown \in {t \in SUBSET (opened \X DOMAIN docs) : Cardinality(t) <= MaxThrown} :
         idTable' = [p \in Props |->
           IF p \in opened
           THEN idTable[p] \o [i \in 1..(maxDocId + 1 - StartDocId(idTable[p])) |->
                                  BuiltId(p, StartDocId(idTable[p]) + i - 1, thrown)]
           ELSE idTable[p]]
    /\ \E flushed \in SUBSET opened :
           persisted' = [p \in Props |-> IF p \in flushed THEN idTable'[p] ELSE persisted[p]]
    /\ UNCHANGED <<docs, gone, opened>>

Next ==
    \/ \E cfg \in ConfigLists : Open(cfg)
    \/ AddDocument
    \/ RemoveDocument
    \/ ProcessCollection

Spec == Init /\ [][Next]_vars

-----------------------------------------------------------------------------
(* getGroupRep (lines 145-244), a query over the current tables *)

\* The parent walk (lines 186-196): the value and each of its ancestors.
RECURSIVE Chain(_)
ChainLeafOnly(n) == IF n = 0 THEN <<>> ELSE <<n>>
Chain(n) == IF n = 0 THEN <<>> ELSE <<n>> \o Chain(Parent[n])

\* Docs of the list that enter the DocIdMap for p (lines 172-184): built
\* (the idTable reaches them), with a value, and passing the group label.
Grouped(p, list, label) ==
    SelectSeq(list, LAMBDA d : d + 1 <= Len(idTable[p]) /\ PvId(p, d) # 0
                               /\ (label = NoLabel \/ d \in label))

DocIdMap(p, list, label) ==
    [n \in Nodes |-> SelectSeq(Grouped(p, list, label),
                               LAMBDA d : n \in ToSet(Chain(PvId(p, d))))]

TreeIds == {TreeList[i].id : i \in DOMAIN TreeList}

\* Only level-1 items add to the property's count (lines 219-222, 239).
CountsInRootAny(level) == TRUE
CountsInRoot(level) == level = 1

\* The items under one property: configured nodes found in the map, in
\* valueTree order and at their level, then the remaining nodes in id
\* order at level 1; the root's count sums the level-1 items.
Block(p, list, label) ==
    LET map    == DocIdMap(p, list, label)
        tree   == SelectSeq(TreeList, LAMBDA t : map[t.id] # <<>>)
        others == SetToSortSeq({n \in Nodes \ TreeIds : map[n] # <<>>}, <)
        items  == [i \in DOMAIN tree |-> [id |-> tree[i].id, level |-> tree[i].level,
                                           docs |-> map[tree[i].id]]]
                  \o [i \in DOMAIN others |-> [id |-> others[i], level |-> 1,
                                                docs |-> map[others[i]]]]
        counted == SelectSeq(items, LAMBDA it : CountsInRoot(it.level))
    IN [prop |-> p, items |-> items,
        count |-> FoldSeq(LAMBDA it, acc : Len(it.docs) + acc, 0, counted)]

\* One block per requested property; a property that is not open ends the
\* call with false, keeping the blocks already appended.
RECURSIVE GroupRepFrom(_, _, _, _)
GroupRepFrom(list, props, label, i) ==
    IF i > Len(props) THEN [ok |-> TRUE, blocks |-> <<>>]
    ELSE IF props[i] \notin opened THEN [ok |-> FALSE, blocks |-> <<>>]
    ELSE LET rest == GroupRepFrom(list, props, label, i + 1)
         IN [ok |-> rest.ok, blocks |-> <<Block(props[i], list, label)>> \o rest.blocks]

GroupRep(list, props, label) == GroupRepFrom(list, props, label, 1)

-----------------------------------------------------------------------------
(* Properties *)

TypeOK ==
    /\ docs \in Seq([Props -> Nodes \cup {0}])
    /\ gone \subseteq 1..maxDocId
    /\ opened \subseteq Props
    /\ \A p \in Props :
         /\ idTable[p] \in Seq(Nodes \cup {0})
         /\ Len(idTable[p]) <= MaxDoc + 1

\* Doc lists of existing docs, as a search result would be.
ResultLists == {l \in Lists : \A i \in DOMAIN l : l[i] \in DOMAIN docs}

\* v is n or lies below n in the value tree.
ParentRel == [pr \in Nodes \X Nodes |-> Parent[pr[1]] = pr[2]]
Below == ReflexiveTransitiveClosure(ParentRel, Nodes)

\* The incremental build lines every table up with the documents, in memory
\* and on disk, across any number of builds, failed flushes, failed opens
\* and reopens: slot 0 reserved, slot d + 1 the value doc d had or 0 (doc
\* removed, or propValueId threw), and no slot beyond the max doc id.
IndexAligned ==
    \A p \in Props : \A t \in {idTable[p], persisted[p]} :
        /\ t[1] = 0
        /\ Len(t) <= maxDocId + 1
        /\ \A d \in 1..(Len(t) - 1) : t[d + 1] \in {0, docs[d][p]}

\* getGroupRep lists under each value exactly the docs of the result whose
\* built value is that value or lies below it, once, and fails exactly when
\* a requested property is not open.
GroupRepMatchesIndex ==
    \A list \in ResultLists, props \in PropLists, label \in Labels :
        LET r == GroupRep(list, props, label) IN
        /\ r.ok = \A i \in DOMAIN props : props[i] \in opened
        /\ \A b \in Range(r.blocks), n \in Nodes :
             LET its == {i \in DOMAIN b.items : b.items[i].id = n}
                 want == {d \in ToSet(list) :
                            /\ d + 1 <= Len(idTable[b.prop])
                            /\ PvId(b.prop, d) # 0
                            /\ Below[PvId(b.prop, d), n]
                            /\ (label = NoLabel \/ d \in label)}
             IN /\ Cardinality(its) <= 1
                /\ UNION {ToSet(b.items[i].docs) : i \in its} = want

\* The count shown on a property is the number of result docs grouped under
\* it: each doc counted once, at the level-1 item of its value's chain.
RootCountIsGroupedDocs ==
    \A list \in ResultLists, props \in PropLists, label \in Labels :
        \A b \in Range(GroupRep(list, props, label).blocks) :
            b.count = Cardinality(ToSet(Grouped(b.prop, list, label)))

====
