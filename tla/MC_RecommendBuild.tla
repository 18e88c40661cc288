------------------------- MODULE MC_RecommendBuild -------------------------
(* A build over two candidate SCD files per directory. The order files hold *)
(* three order keys in one file (so the OrderMap fills at MaxOrderNum = 2), *)
(* lines with no order id, unparsable lines, and an order continued in a    *)
(* second file. Other threads visit, add and remove during the build.      *)
EXTENDS RecommendBuild

D(u, i, o) == [user |-> u, item |-> i, order |-> o, known |-> TRUE]
Unknown(u, i) == [user |-> u, item |-> i, order |-> "", known |-> FALSE]
F(n, valid, loads, type, docs) ==
    [name |-> n, valid |-> valid, loads |-> loads, type |-> type, docs |-> docs]

MCUserIds == {"u1", "u2"}
MCItemIds == {"i1", "i2"}
MCOrderIds == {"o1", "o2"}

MCCandidates ==
    [k \in KindSet |->
        CASE k = "user" ->
               {F(1, TRUE, TRUE, "insert", <<D("u1", "", ""), Unknown("u2", "")>>),
                F(2, TRUE, TRUE, "delete", <<D("u1", "", ""), D("u2", "", "")>>)}
          [] k = "item" ->
               {F(1, TRUE, TRUE, "insert", <<D("", "i1", ""), D("", "i2", "")>>),
                F(2, TRUE, FALSE, "insert", <<D("", "i2", "")>>)}
          [] k = "order" ->
               {F(1, TRUE, TRUE, "insert",
                  <<D("u1", "i1", "o1"), D("u1", "i2", "o2"), D("u1", "i2", "o1"),
                    D("u2", "i1", "o1"), D("u2", "i1", ""), D("", "i1", "o1")>>),
                F(2, TRUE, TRUE, "insert", <<D("u1", "i2", "o1")>>)}]

\* Calls from other threads during the build: a visit, the removal of an
\* item and the addition of a user.
OC(op, k, u, i) == [op |-> op, kind |-> k, user |-> u, item |-> i]
MCOnlineCalls ==
    {OC("visit", "user", "u1", "i1"), OC("delete", "item", "", "i2"),
     OC("insert", "user", "u2", "")}

\* Representative DirectoryRotator states: nothing to copy, a copy that
\* succeeds, a copy that throws, and a dirty directory.
MCRotators ==
    {[hasNext |-> FALSE, sameName |-> FALSE, copied |-> FALSE, copyFails |-> FALSE, guardOK |-> TRUE],
     [hasNext |-> TRUE, sameName |-> FALSE, copied |-> FALSE, copyFails |-> FALSE, guardOK |-> TRUE],
     [hasNext |-> TRUE, sameName |-> FALSE, copied |-> FALSE, copyFails |-> TRUE, guardOK |-> TRUE],
     [hasNext |-> TRUE, sameName |-> FALSE, copied |-> TRUE, copyFails |-> TRUE, guardOK |-> FALSE]}
=============================================================================
