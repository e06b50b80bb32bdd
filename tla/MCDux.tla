------------------------------- MODULE MCDux --------------------------------
(***************************************************************************)
(* The calls to Dux that share one pace, the reading of the catalogue they *)
(* make, the programs that carry it to its end from outside, what the shop *)
(* publishes of it and shows beside it, and the connection with Mercado    *)
(* Libre, for TLC.  A behaviour is one of one of them, `part`, and the     *)
(* others stay as they begin.                                              *)
(***************************************************************************)
EXTENDS DuxRequestGate, ProductCatalog, DuxRelay, EditorialLinks, MercadoLibreConnection,
        DuxReads, Integers, Sequences, FiniteSets, TLC

CONSTANTS k1, k2, k3, p1, p2  \* codes of the analysis, and editorial pages

VARIABLE part

\* What the stock of each code shows: rows of the own warehouse, of another
\* company's and of another one of the company.
Stock == << {<<"own","counted">>}, {<<"own","null">>,<<"foreign","counted">>},
            {<<"own","null">>,<<"other","counted">>} >>

\* The products share the picture the retired catalogue left them.
SharedPicture == [c \in Codes |-> CHOOSE i \in Historic : TRUE]


\* What an operation over two products, one a page, reports of its steps.
Reports ==
  << [phase |-> 1, processed |-> 0, total |-> -1], [phase |-> 2, processed |-> 0, total |-> -1],
     [phase |-> 3, processed |-> 0, total |-> -1], [phase |-> 4, processed |-> 0, total |-> -1],
     [phase |-> 4, processed |-> 1, total |-> 2], [phase |-> 5, processed |-> 2, total |-> 2] >>
Requests == [r \in Runners |-> IF r = "cron" THEN 7 ELSE 8]
Waits == [r \in Runners |-> IF r = "cron" THEN {2} ELSE {2, 4}]

\* k1 is of the approved bulk and k2 and k3 are left to review; the three
\* dispute two pages.
Approved == k1 :> p1
ApprovedUse == k1 :> {"images"}
Offered == k1 :> {p1} @@ k2 :> {p1, p2} @@ k3 :> {p2}
Local == {p1 :> {"images", "description"} @@ p2 :> {"images"}, p2 :> {"images"}}
-----------------------------------------------------------------------------
MCInit ==
  /\ part \in {"gate", "read", "catalog", "relay", "links", "connection"}
  /\ Init /\ ReadInit /\ CatalogInit /\ RelayInit /\ LinksInit /\ ConnInit
  /\ part # "gate" => \A c \in Callers : skew[c] = 0
  /\ part # "read" => listing = <<>> /\ ~scoped
  /\ part # "catalog" => \A c, d \in Codes : dux[c] = dux[d]
  /\ part # "relay" => runner = "cron"

MCNext ==
  \/ part = "gate" /\ Next /\ UNCHANGED <<part, readVars, catalogVars, relayVars, linkVars, connVars>>
  \/ part = "read" /\ ReadNext /\ UNCHANGED <<part, vars, catalogVars, relayVars, linkVars, connVars>>
  \/ part = "catalog" /\ CatalogNext /\ UNCHANGED <<part, vars, readVars, relayVars, linkVars, connVars>>
  \/ part = "relay" /\ RelayNext /\ UNCHANGED <<part, vars, readVars, catalogVars, linkVars, connVars>>
  \/ part = "links" /\ LinksNext /\ UNCHANGED <<part, vars, readVars, catalogVars, relayVars, connVars>>
  \/ part = "connection" /\ ConnNext /\ UNCHANGED <<part, vars, readVars, catalogVars, relayVars, linkVars>>

MCSpec == MCInit /\ [][MCNext]_<<part, vars, readVars, catalogVars, relayVars, linkVars, connVars>>

\* Two uploads, changes of the data and failed statements of the catalogue in
\* all, one of the latter two.
FewFaults == changes + faults <= 1 /\ made + changes + faults <= 2

\* Callers, codes, names and administrators are interchangeable; other parts
\* call their own requests by the same names, so one permutation serves all.
Symmetry == Permutations(Codes) \cup Permutations(Names) \cup Permutations(Admins)

=============================================================================
