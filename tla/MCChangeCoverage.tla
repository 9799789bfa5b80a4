--------------------------- MODULE MCChangeCoverage -------------------------
(***************************************************************************)
(* ChangeCoverage for TLC: documents of one or two declarations, artifacts *)
(* of up to two changes, one resource, one check, one metric, two nodes.   *)
(* The declarations overlap: a broad and a narrow one of each source, a    *)
(* required and an optional one, one denied change, one of another node.   *)
(***************************************************************************)
EXTENDS ChangeCoverage

CONSTANT any

MCPlans ==
  {p \in [checks : {{"smoke"}}, metrics : {{}, {"latency"}}, nodes : {{}, {"n1"}},
          drift : BOOLEAN, drifts : {{}}, observes : BOOLEAN, migrations : BOOLEAN] :
     PlanOK(p) /\ (p.observes => p.metrics # {})}

Declaration(id, source, detail, node, fields, required, checks, affected) ==
  [id |-> id, source |-> source, key |-> "k", detail |-> detail, node |-> node,
   fields |-> fields, required |-> required, checks |-> checks,
   metrics |-> IF id = "fleet-all" THEN {"latency"} ELSE {}, affected |-> affected]

MCDeclarations ==
  {Declaration("infra-any", "infrascout", any, any, {}, TRUE, {}, {}),
   Declaration("infra-any-optional", "infrascout", any, any, {}, FALSE, {}, {}),
   Declaration("infra-vm", "infrascout", "vm", any, {"size"}, TRUE, {}, {}),
   Declaration("database", "database", any, any, {}, TRUE, {"smoke"}, {}),
   Declaration("database-unverified", "database", "table", any, {}, FALSE, {}, {}),
   Declaration("fleet", "fleet", any, "n1", {}, FALSE, {}, {}),
   Declaration("fleet-all", "fleet", any, any, {}, TRUE, {}, {"n1"})}

MCDocuments ==
  [ours : BOOLEAN, changes : {<<d>> : d \in MCDeclarations}]
    \cup [ours : {TRUE}, changes : {<<d, e>> : d, e \in MCDeclarations}]

InfraItem(database, detail, before, after, class) ==
  [database |-> database, key |-> "k", detail |-> detail, before |-> before,
   after |-> after, class |-> class]

InfraItems ==
  {InfraItem(FALSE, "vm", [size |-> 1], [size |-> 2], ""),
   InfraItem(FALSE, "disk", [size |-> 1], [size |-> 1], ""),
   InfraItem(FALSE, "vm", [size |-> 1], <<>>, "denied"),
   InfraItem(TRUE, "table", <<>>, [rows |-> 1], "")}

MCDriftFiles == {<<>>} \cup {<<i>> : i \in InfraItems}
                  \cup {<<i, j>> : i, j \in InfraItems}

FleetItem(node, ours) ==
  [source |-> "fleet", key |-> "k", detail |-> "service", node |-> node,
   class |-> "", ours |-> ours]

MCFleetAnswers == {<<>>, <<FleetItem("n1", TRUE)>>,
                   <<FleetItem("n2", TRUE), FleetItem("n1", FALSE)>>,
                   <<FleetItem("n1", TRUE), FleetItem("n1", TRUE)>>}
=============================================================================
