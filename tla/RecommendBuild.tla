--------------------------- MODULE RecommendBuild ---------------------------
(***************************************************************************)
(* RecommendTaskService::buildCollection (RecommendTaskService.cpp):      *)
(* back up the data directory, take the DirectoryGuard, then load the user *)
(* SCD files, the item SCD files and the order SCD files, in that order,   *)
(* each stage only if the previous one returned true. Every stage scans    *)
(* its directory, sorts the SCD files, applies them document by document   *)
(* and moves the scanned files to backup/. Orders with an order id are     *)
(* collected in an OrderMap keyed by (user, order id) and handed to        *)
(* purchaseItem per key; the map is flushed early when it holds            *)
(* MAX_ORDER_NUM keys and a new key arrives, and at the end of each file.  *)
(*                                                                         *)
(* Document contents are abstracted to their ids ("" for a missing one)    *)
(* and whether every property is in the RecommendSchema. The id            *)
(* generators and the user/item managers are sets of ids.                  *)
(***************************************************************************)
EXTENDS Integers, Sequences, FiniteSets, SequencesExt

CONSTANTS
    UserIds, ItemIds, OrderIds,  \* id strings; "" is the empty string
    Candidates,     \* Candidates[k]: SCD files that may be in k's directory
    RotatorStates,  \* DirectoryRotator states the build may start from
    MaxOrderNum,    \* MAX_ORDER_NUM, scaled down
    OnlineCalls,    \* calls other threads may make on the service during a build
    MaxOnline       \* bound on those calls

Kinds == <<"user", "item", "order">>
KindSet == {"user", "item", "order"}

VARIABLES
    dir,            \* dir[k]: files in the SCD directory of kind k
    dirExists,      \* dirExists[k]: bfs::is_directory(scdDir)
    rotator,        \* the DirectoryRotator's current/next directories
    stage,          \* "start", a kind being loaded, "done", or "thrown" when backup/ could not be created
    phase,          \* within a stage: "scan", "file", "doc"
    scdList,        \* the sorted scan of the current stage's directory
    fi, di,         \* current file and document index
    orderMap,       \* OrderMap: <<user, order>> -> item ids, per order file
    userGen, itemGen,  \* ids known to userIdGenerator_ / itemIdGenerator_
    users, items,   \* ids present in userManager_ / itemManager_
    calls,          \* every purchaseItem call made, in order, with its result
    backedUp,       \* backedUp[k]: files moved to k's backup/ directory
    result,         \* what buildCollection returned, once stage = "done"
    visits,         \* <<user, item>> pairs visitManager_ has recorded
    online          \* online calls made so far

vars == <<dir, dirExists, rotator, stage, phase, scdList, fi, di, orderMap,
          userGen, itemGen, users, items, calls, backedUp, result, visits, online>>
Build == <<dir, dirExists, rotator, stage, phase, scdList, fi, di, orderMap,
           calls, backedUp, result>>

Types == {"insert", "update", "delete", "not_scd"}
Doc == [user : UserIds \cup {""}, item : ItemIds \cup {""},
        order : OrderIds \cup {""}, known : BOOLEAN]
Rotators == [hasNext : BOOLEAN, sameName : BOOLEAN, copied : BOOLEAN,
             copyFails : BOOLEAN, guardOK : BOOLEAN]

\* scanSCDFiles (lines 34-74): the regular files whose names pass
\* checkSCDFormat, sorted by ScdParser::compareSCD (name order here).
ScanSCDFiles(k) ==
    SortSeq(SetToSeq({f \in dir[k] : f.valid}), LAMBDA a, b : a.name < b.name)

\* The stage after k in buildCollection's && chain (line 485).
NextStage(k) ==
    IF k = "user" THEN "item" ELSE IF k = "item" THEN "order" ELSE "done"

\* RecommendBundleActivator::createSCDDir_ (lines 228-232) creates the user
\* and order SCD directories; nothing creates the item SCD directory.
CreatedSCDDirs == {[k \in KindSet |-> k # "item" \/ b] : b \in BOOLEAN}

Init ==
    /\ dir \in [KindSet -> SUBSET UNION {Candidates[k] : k \in KindSet}]
    /\ \A k \in KindSet : dir[k] \subseteq Candidates[k]
    /\ dirExists \in CreatedSCDDirs
    /\ rotator \in RotatorStates
    /\ stage = "start"
    /\ phase = "scan"
    /\ scdList = <<>>
    /\ fi = 1
    /\ di = 1
    /\ orderMap = <<>>
    \* ids and entries left by earlier builds
    /\ userGen \in SUBSET UserIds
    /\ itemGen \in SUBSET ItemIds
    /\ users \in SUBSET userGen
    /\ items \in SUBSET itemGen
    /\ calls = <<>>
    /\ backedUp = [k \in KindSet |-> {}]
    /\ result = FALSE
    /\ visits = {}
    /\ online = 0

Finish(r) ==
    /\ stage' = "done"
    /\ result' = r

\* buildCollection (lines 467-484): backupDataFiles copies the current data
\* directory into the next one unless there is none, it is the same, or it
\* already holds a valid copy of the current one; a failed copy, or a dirty
\* directory refused by the DirectoryGuard, ends the build with false.
BackupDataFiles(rot) ==
    IF rot.hasNext /\ ~rot.sameName /\ ~rot.copied THEN ~rot.copyFails ELSE TRUE

StartBuild ==
    /\ stage = "start"
    /\ IF BackupDataFiles(rotator) /\ rotator.guardOK
       THEN /\ stage' = "user"
            /\ UNCHANGED result
       ELSE Finish(FALSE)
    /\ UNCHANGED <<visits, online, dir, dirExists, rotator, phase, scdList, fi, di, orderMap,
                   userGen, itemGen, users, items, calls, backedUp>>

\* loadUserSCD_/loadItemSCD_/loadOrderSCD_ entry (lines 497-509 and their
\* twins): a missing directory fails the stage, and with it the build; no
\* SCD files is success without a backup.
Scan ==
    /\ stage \in KindSet
    /\ phase = "scan"
    /\ scdList' = ScanSCDFiles(stage)
    /\ fi' = 1
    /\ CASE ~dirExists[stage]            -> Finish(FALSE) /\ UNCHANGED phase
         [] ScanSCDFiles(stage) = <<>>   -> /\ stage' = NextStage(stage)
                                            /\ result' = IF stage = "order" THEN TRUE ELSE result
                                            /\ UNCHANGED phase
         [] OTHER                        -> phase' = "file" /\ UNCHANGED <<stage, result>>
    /\ UNCHANGED <<visits, online, dir, dirExists, rotator, di, orderMap, userGen, itemGen,
                   users, items, calls, backedUp>>

\* The SCD type a stage accepts: every type but NOT_SCD for users and items
\* (lines 521-526), INSERT only for orders (lines 689-694).
Accepts(k, type) == IF k = "order" THEN type = "insert" ELSE type # "not_scd"

\* Open the next file: a file the ScdParser cannot load, or of a type the
\* stage refuses, is skipped (continue).
OpenFile ==
    /\ stage \in KindSet
    /\ phase = "file"
    /\ fi <= Len(scdList)
    /\ IF scdList[fi].loads /\ Accepts(stage, scdList[fi].type)
       THEN phase' = "doc" /\ di' = 1 /\ UNCHANGED fi
       ELSE fi' = fi + 1 /\ UNCHANGED <<phase, di>>
    /\ UNCHANGED <<visits, online, dir, dirExists, rotator, stage, scdList, orderMap, userGen,
                   itemGen, users, items, calls, backedUp, result>>

\* All files done: backupSCDFiles (lines 76-94) creates backup/, which
\* throws out of buildCollection when it fails (no try around line 79),
\* then renames every scanned file, applied or skipped, into it; a failed
\* rename is caught and logged and leaves that file in the SCD directory.
\* The stage then returns true (lines 574-576, 658-660, 753-755).
EndStage ==
    /\ stage \in KindSet
    /\ phase = "file"
    /\ fi > Len(scdList)
    /\ \/ /\ stage' = "thrown"
          /\ UNCHANGED <<backedUp, phase, result>>
       \/ /\ \E moved \in SUBSET ToSet(scdList) :
                backedUp' = [backedUp EXCEPT ![stage] = @ \cup moved]
          /\ stage' = NextStage(stage)
          /\ phase' = "scan"
          /\ result' = IF stage = "order" THEN TRUE ELSE result
    /\ UNCHANGED <<visits, online, dir, dirExists, rotator, scdList, fi, di, orderMap, userGen,
                   itemGen, users, items, calls>>

\* doc2User/doc2Item (lines 127-197): fails on a property the schema does
\* not know or on a missing id.
EntityId(k, d) == IF k = "user" THEN d.user ELSE d.item
ParsesAsEntity(k, d) == d.known /\ EntityId(k, d) # ""

\* add/update/remove of one user or item (lines 286-392). add converts the
\* id with creation, so the generator learns it, and adds it even when it
\* was known; update and remove convert without creation and do nothing
\* for an id the generator never saw. The generators never forget an id.
ApplyEntity(type, id, gen, mgr) ==
    CASE type = "insert" -> [gen |-> gen \cup {id}, mgr |-> mgr \cup {id}]
      [] type = "delete" /\ id \in gen -> [gen |-> gen, mgr |-> mgr \ {id}]
      [] OTHER -> [gen |-> gen, mgr |-> mgr]

\* One document of a user SCD file (lines 528-571): doc2User, then
\* addUser, updateUser or removeUser by the file's SCD type.
UserDoc ==
    /\ stage = "user"
    /\ phase = "doc"
    /\ di <= Len(scdList[fi].docs)
    /\ LET d == scdList[fi].docs[di]
           r == ApplyEntity(scdList[fi].type, d.user, userGen, users)
       IN IF ParsesAsEntity("user", d)
          THEN userGen' = r.gen /\ users' = r.mgr
          ELSE UNCHANGED <<userGen, users>>
    /\ di' = di + 1
    /\ UNCHANGED <<itemGen, items, visits, online, dir, dirExists, rotator, stage,
                   phase, scdList, fi, orderMap, calls, backedUp, result>>

\* One document of an item SCD file (lines 612-655): doc2Item, then
\* addItem, updateItem or removeItem by the file's SCD type.
ItemDoc ==
    /\ stage = "item"
    /\ phase = "doc"
    /\ di <= Len(scdList[fi].docs)
    /\ LET d == scdList[fi].docs[di]
           r == ApplyEntity(scdList[fi].type, d.item, itemGen, items)
       IN IF ParsesAsEntity("item", d)
          THEN itemGen' = r.gen /\ items' = r.mgr
          ELSE UNCHANGED <<itemGen, items>>
    /\ di' = di + 1
    /\ UNCHANGED <<userGen, users, visits, online, dir, dirExists, rotator, stage,
                   phase, scdList, fi, orderMap, calls, backedUp, result>>

\* purchaseItem (lines 418-465): the order is refused as a whole unless the
\* user and every item id are known to the generators; otherwise it goes to
\* purchaseManager_->addPurchaseItem.
PurchaseItem(u, o, its) ==
    [user |-> u, order |-> o, items |-> its,
     ok |-> u \in userGen /\ its # <<>> /\ \A i \in DOMAIN its : its[i] \in itemGen]

\* loadOrderMap_ (lines 758-769): one purchaseItem per key, in map order.
LoadOrderMap(om) ==
    LET keys == SetToSeq(DOMAIN om)
    IN [i \in DOMAIN keys |-> PurchaseItem(keys[i][1], keys[i][2], om[keys[i]])]

\* doc2Order (lines 199-258) needs a user and an item id.
ParsesAsOrder(d) == d.user # "" /\ d.item # ""

\* A new key finds the map holding MAX_ORDER_NUM keys (line 739).
Flushes(om, key) == key \notin DOMAIN om /\ Cardinality(DOMAIN om) >= MaxOrderNum

\* The OrderMap after adding item under key (lines 731-746): appended to its
\* key, or a new key in a map that was flushed and cleared if full.
OrderMapAfterNoClear(om, key, item) ==
    IF key \in DOMAIN om THEN [om EXCEPT ![key] = Append(@, item)]
    ELSE om @@ (key :> <<item>>)
OrderMapAfter(om, key, item) ==
    IF key \in DOMAIN om THEN [om EXCEPT ![key] = Append(@, item)]
    ELSE IF Flushes(om, key) THEN key :> <<item>>
    ELSE om @@ (key :> <<item>>)

\* One document of an order SCD file (lines 698-748): an order without an
\* order id is purchased at once, one with an id is collected.
OrderDoc ==
    /\ stage = "order"
    /\ phase = "doc"
    /\ di <= Len(scdList[fi].docs)
    /\ LET d   == scdList[fi].docs[di]
           key == <<d.user, d.order>>
       IN CASE ~ParsesAsOrder(d) -> UNCHANGED <<calls, orderMap>>
            [] d.order = "" ->
                 /\ calls' = Append(calls, PurchaseItem(d.user, "", <<d.item>>))
                 /\ UNCHANGED orderMap
            [] OTHER ->
                 /\ calls' = IF Flushes(orderMap, key)
                             THEN calls \o LoadOrderMap(orderMap) ELSE calls
                 /\ orderMap' = OrderMapAfter(orderMap, key, d.item)
    /\ di' = di + 1
    /\ UNCHANGED <<visits, online, dir, dirExists, rotator, stage, phase, scdList, fi, userGen,
                   itemGen, users, items, backedUp, result>>

\* The end of a file; an order file hands what is left in its OrderMap to
\* loadOrderMap_ (line 750).
EndFileNoLoad ==
    /\ stage \in KindSet
    /\ phase = "doc"
    /\ di > Len(scdList[fi].docs)
    /\ orderMap' = <<>>
    /\ fi' = fi + 1
    /\ phase' = "file"
    /\ UNCHANGED <<visits, online, dir, dirExists, rotator, stage, scdList, di, userGen,
                   itemGen, users, items, calls, backedUp, result>>
EndFile ==
    /\ stage \in KindSet
    /\ phase = "doc"
    /\ di > Len(scdList[fi].docs)
    /\ calls' = IF stage = "order" THEN calls \o LoadOrderMap(orderMap) ELSE calls
    /\ orderMap' = <<>>
    /\ fi' = fi + 1
    /\ phase' = "file"
    /\ UNCHANGED <<visits, online, dir, dirExists, rotator, stage, scdList, di, userGen,
                   itemGen, users, items, backedUp, result>>

\* A call another thread makes on the RecommendTaskService during the
\* build; nothing serialises it with buildCollection. addUser/updateUser/
\* removeUser and their item twins (lines 286-392) return false on an
\* empty id and otherwise go through the generators and managers the
\* build uses.
OnlineEntity(type, k, id) ==
    /\ UNCHANGED visits
    /\ IF id = "" THEN UNCHANGED <<userGen, users, itemGen, items>>
       ELSE IF k = "user"
       THEN LET r == ApplyEntity(type, id, userGen, users)
            IN userGen' = r.gen /\ users' = r.mgr /\ UNCHANGED <<itemGen, items>>
       ELSE LET r == ApplyEntity(type, id, itemGen, items)
            IN itemGen' = r.gen /\ items' = r.mgr /\ UNCHANGED <<userGen, users>>

\* visitItem (lines 394-416): both ids non-empty and known to the
\* generators (conv without creation), then visitManager_->addVisitItem.
VisitItem(u, i) ==
    /\ UNCHANGED <<userGen, users, itemGen, items>>
    /\ IF u # "" /\ i # "" /\ u \in userGen /\ i \in itemGen
       THEN visits' = visits \cup {<<u, i>>}
       ELSE UNCHANGED visits

OnlineCall ==
    /\ online < MaxOnline
    /\ online' = online + 1
    /\ \E c \in OnlineCalls :
         IF c.op = "visit" THEN VisitItem(c.user, c.item)
         ELSE OnlineEntity(c.op, c.kind, EntityId(c.kind, c))
    /\ UNCHANGED Build

Next ==
    \/ StartBuild
    \/ Scan
    \/ OpenFile
    \/ UserDoc
    \/ ItemDoc
    \/ OnlineCall
    \/ OrderDoc
    \/ EndFile
    \/ EndStage

Spec == Init /\ [][Next]_vars

-----------------------------------------------------------------------------
(* Properties *)

OrderKeys == (UserIds \cup {""}) \X (OrderIds \cup {""})
Call == [user : UserIds \cup {""}, order : OrderIds \cup {""},
         items : Seq(ItemIds \cup {""}), ok : BOOLEAN]

TypeOK ==
    /\ stage \in {"start", "done", "thrown"} \cup KindSet
    /\ phase \in {"scan", "file", "doc"}
    /\ DOMAIN orderMap \subseteq OrderKeys
    /\ Cardinality(DOMAIN orderMap) <= MaxOrderNum
    /\ \A key \in DOMAIN orderMap : orderMap[key] \in Seq(ItemIds)
    /\ userGen \subseteq UserIds /\ itemGen \subseteq ItemIds
    /\ \A i \in DOMAIN calls : calls[i] \in Call
    /\ result \in BOOLEAN
    /\ visits \subseteq UserIds \X ItemIds
    /\ online \in 0..MaxOnline

\* Count of x in the sequence s.
Occurrences(s, x) == Cardinality({i \in DOMAIN s : s[i] = x})

\* <<user, order id, item>> of every order line the build parsed from the
\* insert order files it loaded, and of every line it passed to purchaseItem.
ParsedOrderLines ==
    LET files == SelectSeq(ScanSCDFiles("order"),
                           LAMBDA f : f.loads /\ f.type = "insert")
        lines(f) == SelectSeq(f.docs, ParsesAsOrder)
    IN FlattenSeq([i \in DOMAIN files |->
           [j \in DOMAIN lines(files[i]) |->
               <<lines(files[i])[j].user, lines(files[i])[j].order,
                 lines(files[i])[j].item>>]])
SubmittedOrderLines ==
    FlattenSeq([i \in DOMAIN calls |->
        [j \in DOMAIN calls[i].items |->
            <<calls[i].user, calls[i].order, calls[i].items[j]>>]])

\* When buildCollection returns true, the order batching (the early flush
\* at MAX_ORDER_NUM, the clear after it, and the flush at the end of each
\* file) has passed every parsed order line to purchaseItem exactly once:
\* nothing left behind in the OrderMap, nothing submitted twice.
OrderLinesConserved ==
    stage = "done" /\ result =>
        \A x \in Range(ParsedOrderLines) \cup Range(SubmittedOrderLines) :
            Occurrences(ParsedOrderLines, x) = Occurrences(SubmittedOrderLines, x)


\* All order lines with the same user and order id reach purchaseItem in a
\* single call: loadOrderSCD_ groups them by OrderKey so that an order is
\* added as a whole.
OrdersNotSplit ==
    \A i, j \in DOMAIN calls :
        (i # j /\ calls[i].order # "") =>
            <<calls[i].user, calls[i].order>> # <<calls[j].user, calls[j].order>>
====
