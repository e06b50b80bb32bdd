--------------------------- MODULE CatalogMatching ---------------------------
(***************************************************************************)
(* How the products of Dux are matched with those of the old local         *)
(* catalogue, whose pictures and descriptions they may take over: the      *)
(* analysis of scripts/analyze-dux-catalog-matches.mjs and, on its report, *)
(* the plan of scripts/analyze-dux-editorial-links.mjs.                    *)
(*                                                                         *)
(* Operators only: module Rules states what they promise, of the cases at  *)
(* the end.  A name is its words, without accents or noise, and the        *)
(* presentation it ends in ("none" if it states none), once converted to   *)
(* grams or millilitres.  How alike two different wordings are is a table, *)
(* Likeness, in hundredths; the presentations are counted on top of it.    *)
(* Reports, counts and files are left out.                                 *)
(*                                                                         *)
(* Two more rules about the same products follow: the mapping a            *)
(* synchronisation stores of each unit of the inventory, and what the      *)
(* retired copy of Mercado Libre may still tell a reviewer.                *)
(***************************************************************************)
EXTENDS Integers, Sequences, SequencesExt, FiniteSetsExt

Only(s) == CHOOSE x \in s : TRUE

(***************************************************************************)
(* Names.                                                                  *)
(***************************************************************************)

\* canonicalDecimalAmount: an amount is its integer part and the digits of its fraction, a
\* kilogram or a litre counts 1000.  The digits of the result have no zero at the end.
DigitsValue(digits) == FoldLeft(LAMBDA n, d : 10 * n + d, 0, digits)
DigitsOf(n, length) == [i \in 1..length |-> (n \div 10^(length - i)) % 10]
PaddedDigits(n, length) == DigitsOf(n, length)
CanonicalAmount(amount, multiplier) ==
  LET scale == 10^Len(amount.digits)
      converted == (amount.integer * scale + DigitsValue(amount.digits)) * multiplier
      digits == PaddedDigits(converted % scale, Len(amount.digits))
      last == Max({0} \cup {i \in DOMAIN digits : digits[i] # 0})
  IN [integer |-> converted \div scale, digits |-> SubSeq(digits, 1, last)]

Stated(pres) == IF pres = "none" THEN <<>> ELSE <<pres>>

\* similarity: equal words are 100 alike; the table stands for tokens and trigrams.
Likeness(v, w) ==
  CASE v = w                              -> 100
    [] ToSet(v) = ToSet(w)                -> 91
    [] Head(v) = Head(w)                  -> 80
    [] ToSet(v) \cap ToSet(w) # {}        -> 72
    [] OTHER                              -> 20

\* localExactNameKey: the name, with the presentation field when the name has none; no key
\* when the two contradict each other.
ExactKey(l) ==
  IF l.inName # "none" /\ l.inField # "none" /\ l.inName # l.inField THEN <<>>
  ELSE <<l.words, IF l.inName # "none" THEN l.inName ELSE l.inField>>

\* What the fuzzy comparison takes for the presentation of a local product: of the name
\* and of the field one after the other, repeated if both say it.
FuzzyPresentation(l) == Stated(l.inName) \o Stated(l.inField)

FuzzyScore(item, l) ==
  LET alike == Likeness(item.words, l.words)
      mine == Stated(item.pres)  theirs == FuzzyPresentation(l)
  IN IF mine = <<>> \/ theirs = <<>> THEN alike
     ELSE IF mine = theirs
          THEN IF alike > 95 THEN 100 ELSE alike + 5
          ELSE (alike * 55) \div 100

(***************************************************************************)
(* The analysis: buildWorkingMatch.                                        *)
(***************************************************************************)

MappedIds(item)    == {u.local : u \in {v \in item.units : v.mapping = "mapped" /\ v.local # "none"}}
AmbiguousIds(item) == UNION {u.others : u \in {v \in item.units : v.mapping = "ambiguous"}}
FullyMapped(item)  == /\ Cardinality(MappedIds(item)) = 1
                      /\ \A u \in item.units : u.mapping = "mapped" /\ u.local # "none"
HardAmbiguous(item) == ~FullyMapped(item) /\ MappedIds(item) \cup AmbiguousIds(item) # {}

\* The local products there is direct evidence for: the stored mapping of the units, the
\* code as an identifier, the external code as an id, the barcode as an identifier.
Evidence(item, locals) ==
  {id \in DOMAIN locals :
     \/ id \in MappedIds(item) \cup AmbiguousIds(item)
     \/ item.code \in locals[id].identifiers
     \/ \E u \in item.units : u.external = id \/ u.barcode \in locals[id].identifiers}

MinReview == 65
Suggestion == 90
Margin == 8

FuzzyCandidates(item, locals) == {id \in DOMAIN locals : FuzzyScore(item, locals[id]) >= MinReview}

\* The best of the candidates, when it is good enough and clearly better than the others.
ClearBest(scores, enough) ==
  {id \in DOMAIN scores : /\ scores[id] >= enough
                          /\ \A other \in DOMAIN scores \ {id} : scores[id] - scores[other] >= Margin}

Match(status, selected, candidates) == [status |-> status, selected |-> selected, candidates |-> candidates]

\* The candidates with one score: evidence counts as 100, the same name as 96.
Scored(ids, score) == [id \in ids |-> score]

WorkingMatch(item, locals) ==
  LET evidence == Evidence(item, locals)
      named == {id \in DOMAIN locals : ExactKey(locals[id]) = <<item.words, item.pres>>}
      fuzzy == [id \in FuzzyCandidates(item, locals) |-> FuzzyScore(item, locals[id])]
      best == ClearBest(fuzzy, Suggestion)
  IN CASE HardAmbiguous(item) \/ Cardinality(evidence) > 1 ->
            Match("ambiguous", "none", Scored(evidence, 100))
       [] Cardinality(evidence) = 1 ->
            Match("confirmed", Only(evidence), Scored(evidence, 100))
       [] Cardinality(named) > 1 -> Match("ambiguous", "none", Scored(named, 96))
       [] Cardinality(named) = 1 -> Match("suggested", Only(named), Scored(named, 96))
       [] best # {} -> Match("suggested", Only(best), fuzzy)
       [] OTHER -> Match("dux_only", "none", fuzzy)

\* Several items that selected one product: the one that is confirmed keeps it, if it is
\* the only one that is; the others are left to a person.
Losers(chosen, firm) ==
  {code \in DOMAIN chosen :
     LET rivals == {other \in DOMAIN chosen \ {code} : chosen[other].selected = chosen[code].selected}
     IN /\ chosen[code].selected # "none" /\ rivals # {}
        /\ (firm[code] => \E other \in rivals : firm[other])}

\* applySharedLocalConflicts.
SharedLocalConflicts(chosen) == Losers(chosen, [code \in DOMAIN chosen |-> chosen[code].status = "confirmed"])

Matches(items, locals) ==
  LET working == [code \in DOMAIN items |-> WorkingMatch(items[code], locals)]
      shared == SharedLocalConflicts(working)
  IN [code \in DOMAIN items |->
        IF code \in shared THEN Match("ambiguous", "none", working[code].candidates) ELSE working[code]]

(***************************************************************************)
(* The plan: buildProposal.                                                *)
(***************************************************************************)

\* localDescriptor: what name and field state, or else the description.
Explicit(l)  == {l.inName, l.inField} \ {"none"}
InText(l)    == {l.inText} \ {"none", "no text"}
Effective(l) == IF Explicit(l) # {} THEN Explicit(l) ELSE InText(l)
Conflict(l)  == Explicit(l) # {} /\ InText(l) # {} /\ Explicit(l) # InText(l)

ComparePresentation(item, l) ==
  LET mine == {item.pres} \ {"none"}  theirs == Effective(l)
  IN CASE mine = {} /\ theirs = {} -> "none"
       [] mine = {}                -> "dux_missing"
       [] theirs = {}              -> "local_missing"
       [] OTHER                    -> IF mine = theirs THEN "same" ELSE "different"

PresentationRank(relation) ==
  CASE relation = "same" -> 50 [] relation = "none" -> 40 [] relation = "local_missing" -> 30
    [] relation = "dux_missing" -> 20 [] OTHER -> 10

DescriptionEligible(item, l) ==
  l.inText # "no text" /\ (InText(l) # {} => InText(l) = {item.pres})

\* What the plan recommends to copy: "images" and, if it is allowed, "description".
RecommendedFields(item, l, allowed) ==
  (IF l.image THEN {"images"} ELSE {})
    \cup (IF allowed /\ DescriptionEligible(item, l) THEN {"description"} ELSE {})

Proposal(status, selected, fields) == [status |-> status, selected |-> selected, fields |-> fields]
Unresolved(status) == Proposal(status, "none", {})

\* exactDecision: the status, and whether the description may be taken.
ExactDecision(item, l) ==
  LET relation == ComparePresentation(item, l)
  IN CASE Conflict(l)                                     -> <<"review_full", FALSE>>
       [] relation \in {"same", "none"}                   -> <<"auto_full", TRUE>>
       [] relation \in {"local_missing", "dux_missing"}   -> <<"review_full", TRUE>>
       [] OTHER                                           -> <<"review_image", FALSE>>

\* The local products of the same words; of the same set of words if there are none.
SemanticGroup(item, locals) ==
  LET worded == {id \in DOMAIN locals : locals[id].words = item.words}
  IN IF worded # {} THEN worded
     ELSE {id \in DOMAIN locals : ToSet(locals[id].words) = ToSet(item.words)}

FuzzyReview == 75

ExactProposal(item, group, locals) ==
  LET rank(id) == PresentationRank(ComparePresentation(item, locals[id]))
      best == {id \in group : \A other \in group : rank(id) >= rank(other)}
      decision == ExactDecision(item, locals[Only(best)])
  IN IF Cardinality(best) # 1 THEN Unresolved("ambiguous")
     ELSE Proposal(decision[1], Only(best), RecommendedFields(item, locals[Only(best)], decision[2]))

FuzzyProposal(item, scores, locals) ==
  LET best == ClearBest(scores, FuzzyReview)
  IN IF best # {} THEN Proposal("review_fuzzy", Only(best), RecommendedFields(item, locals[Only(best)], FALSE))
     ELSE IF \E id \in DOMAIN scores : scores[id] >= FuzzyReview THEN Unresolved("ambiguous")
     ELSE Unresolved("no_candidate")

BuildProposal(item, match, locals) ==
  LET group == SemanticGroup(item, locals)
  IN CASE match.status = "confirmed" ->
            Proposal("confirmed_identity", match.selected,
                     RecommendedFields(item, locals[match.selected], TRUE))
       [] match.status = "ambiguous" -> Unresolved("ambiguous")
       [] group # {}                 -> ExactProposal(item, group, locals)
       [] OTHER                      -> FuzzyProposal(item, match.candidates, locals)

IsAuto(proposal) == proposal.status \in {"confirmed_identity", "auto_full"}

\* downgradeSharedFullLinks: only the automatic ones claim a product.
DowngradeShared(proposals) ==
  LET claims == [code \in {c \in DOMAIN proposals : IsAuto(proposals[c])} |-> proposals[code]]
      shared == Losers(claims, [code \in DOMAIN claims |-> claims[code].status = "confirmed_identity"])
  IN [code \in DOMAIN proposals |-> IF code \in shared THEN Unresolved("ambiguous") ELSE proposals[code]]

Plan(items, locals) ==
  LET matches == Matches(items, locals)
  IN DowngradeShared([code \in DOMAIN items |-> BuildProposal(items[code], matches[code], locals)])

(***************************************************************************)
(* The mapping a synchronisation stores (server/dux-inventory.ts): which   *)
(* local product each unit, a code in a warehouse, is.  What was decided   *)
(* before is read first.                                                   *)
(***************************************************************************)
Mapping(status, source, local, candidates) ==
  [status |-> status, source |-> source, local |-> local, candidates |-> candidates]
NoMapping == Mapping("unmapped", "none", "none", {})
MappedTo(id, source) == Mapping("mapped", source, id, {id})

\* candidateDecision: one candidate is mapped, several are left ambiguous.
CandidateDecision(ids, source) ==
  IF Cardinality(ids) = 1 THEN MappedTo(Only(ids), source) ELSE Mapping("ambiguous", "none", "none", ids)

\* localBootstrapNameKey: the name and its presentation; no key when name, field and the
\* historical id contradict each other.
BootstrapKey(l) ==
  LET visible == IF l.inName # "none" THEN l.inName ELSE l.inField
      contradicts(one, other) == one # "none" /\ other # "none" /\ one # other
  IN IF contradicts(l.inName, l.inField) \/ contradicts(visible, l.inId) THEN <<>> ELSE <<l.words, visible>>

\* What readPersistedMappings and parseInventoryRow take for a row of theirs; any other
\* stops every later synchronisation, and every reading of the inventory.
ReadableMapping(m) ==
  /\ m.status = "mapped" => m.local # "none" /\ m.source # "none" /\ m.candidates = {m.local}
  /\ m.status = "ambiguous" => m.candidates # {} /\ (m.local = "none" <=> m.source = "none")
                              /\ m.local \in m.candidates \cup {"none"}
  /\ m.status = "unmapped" => m.local = "none" /\ m.source = "none"

\* decideMapping: a stored product that still exists stays; then the external code as an
\* id, the code, and the barcodes as identifiers; then the stored candidates; and the name,
\* in the first synchronisation of all.
DecideMapping(stored, unit, locals, bootstrap) ==
  LET ids == DOMAIN locals
      evidence == << [source |-> "codigo_externo", ids |-> {unit.external} \cap ids],
                     [source |-> "sku", ids |-> {id \in ids : unit.code \in locals[id].identifiers}],
                     [source |-> "cod_barra", ids |-> {id \in ids : unit.barcodes \cap locals[id].identifiers # {}}] >>
      found == SelectSeq(evidence, LAMBDA e : e.ids # {})
      named == {id \in ids : BootstrapKey(locals[id]) = <<unit.words, unit.pres>>}
  IN IF stored.status = "mapped" /\ stored.local \in ids THEN MappedTo(stored.local, "persisted")
     ELSE IF found # <<>> THEN CandidateDecision(Head(found).ids, Head(found).source)
     ELSE IF stored.status = "ambiguous" /\ stored.candidates \subseteq ids THEN stored
     ELSE IF bootstrap /\ named # {} THEN CandidateDecision(named, "exact_name")
     ELSE NoMapping

\* mapInventoryItems: two units mapped to one product are both left ambiguous.
MapInventory(table, units, locals, initial) ==
  LET stored(k) == IF k \in DOMAIN table THEN table[k].mapping ELSE NoMapping
      decided == [k \in DOMAIN units |-> DecideMapping(stored(k), units[k], locals, initial /\ DOMAIN table = {})]
      shared == {k \in DOMAIN units : \E other \in DOMAIN units \ {k} :
                   /\ {decided[k].status, decided[other].status} = {"mapped"}
                   /\ decided[k].local = decided[other].local}
  IN [k \in DOMAIN units |-> IF k \in shared THEN [decided[k] EXCEPT !.status = "ambiguous"] ELSE decided[k]]

\* The inventory after a synchronisation: a unit Dux no longer reports stays as it was,
\* absent.
Synchronised(table, units, locals, initial) ==
  LET mappings == MapInventory(table, units, locals, initial)
  IN [k \in DOMAIN table \cup DOMAIN units |->
        IF k \in DOMAIN units THEN [mapping |-> mappings[k], absent |-> FALSE]
        ELSE [table[k] EXCEPT !.absent = TRUE]]

(***************************************************************************)
(* What the copy of Mercado Libre tells a reviewer of a case               *)
(* (server/dux-matching-source.ts, corroboratingUnits).                    *)
(***************************************************************************)
MaxAge == 15

\* readMercadoLibreMatchingSource: the rows that can be read and are not absent, and
\* whether the latest of them is fresh.  Ages are in minutes, negative when ahead.
ReadUnits(rows) == {i \in DOMAIN rows : rows[i].valid /\ rows[i].sync # "absent"}
FreshSource(rows) == ReadUnits(rows) # {} /\ Min({rows[i].age : i \in ReadUnits(rows)}) <= MaxAge

\* Units good enough to say which product a code is.
UsableUnits(rows) ==
  {i \in ReadUnits(rows) :
     /\ rows[i].sync = "ok" /\ rows[i].mapping = "mapped" /\ rows[i].active
     /\ rows[i].sku # "none" /\ rows[i].local # "none"
     /\ rows[i].age \in 0..MaxAge}

\* corroboratingUnits: those no other of them collides with, after a run that succeeded.
CorroboratingUnits(rows, run, seller) ==
  IF seller # "expected" \/ ~FreshSource(rows) \/ run # "succeeded" THEN {}
  ELSE {i \in UsableUnits(rows) : \A j \in UsableUnits(rows) \ {i} :
          rows[i].sku # rows[j].sku /\ rows[i].local # rows[j].local}

(***************************************************************************)
(* Cases: two items and two local products.                                *)
(***************************************************************************)
Unit(mapping, local, others, external, barcode) ==
  [mapping |-> mapping, local |-> local, others |-> others, external |-> external, barcode |-> barcode]
UnmappedUnit == Unit("unmapped", "none", {}, "none", "none")
UnitSets ==
  {{}, {Unit("mapped", "l1", {}, "none", "none")}, {Unit("mapped", "gone", {}, "none", "none")},
   {Unit("mapped", "l1", {}, "none", "none"), UnmappedUnit},
   {Unit("ambiguous", "none", {"l1", "l2"}, "none", "none")},
   {Unit("unmapped", "none", {}, "l1", "none")}, {Unit("unmapped", "none", {}, "none", "bar")}}
Words == {<<"x", "y">>, <<"y", "x">>, <<"x", "z">>}

Items(code, units, words, presentations) ==
  [code : {code}, units : units, words : words, pres : presentations]
Locals(identifiers, words, labels, texts) ==
  {[identifiers |-> i, words |-> w, inName |-> label[1], inField |-> label[2], inText |-> t, image |-> TRUE] :
     i \in identifiers, w \in words, label \in labels, t \in texts}
CasesOf(firsts, seconds, locals) ==
  {[rule |-> "matching", items |-> [d1 |-> i, d2 |-> j], locals |-> [l1 |-> a, l2 |-> b]] :
     i \in firsts, j \in seconds, a \in locals, b \in locals}

Few == {<<"x", "y">>, <<"y", "x">>}
EvidenceCases ==
  CasesOf(Items("d1", UnitSets, Few, {"none"}), Items("d2", UnitSets, Few, {"none"}),
          Locals({{}, {"d1"}, {"bar"}}, Few, {<<"none", "none">>}, {"no text"}))
Labels == {<<"none", "none">>, <<"p", "none">>, <<"none", "p">>, <<"p", "p">>, <<"p", "q">>}
NameCases ==
  CasesOf(Items("d1", {{}}, Words, {"none", "p"}),
          Items("d2", {{}, {Unit("mapped", "l1", {}, "none", "none")}}, Few, {"none", "p"}),
          Locals({{}}, {<<"x", "y">>, <<"x", "z">>}, Labels, {"no text", "none", "q"}))
Amounts == [integer : {0, 1, 12}, digits : UNION {[1..n -> {0, 2, 5}] : n \in 0..5}]
AmountCases == [rule : {"amount"}, amount : Amounts, multiplier : {1, 1000}]
MatchingCases == EvidenceCases \cup NameCases

\* Two units of the inventory with their evidence, what was stored of them, and the local
\* products there still are.
InventoryUnits(code, externals, presentations) ==
  [code : {code}, external : externals, barcodes : {{}, {"bar"}}, words : {<<"x", "y">>}, pres : presentations]
InventoryLocals(labels) ==
  {[identifiers |-> i, words |-> <<"x", "y">>, inName |-> label[1], inField |-> label[2], inId |-> label[3]] :
     i \in {{}, {"d1"}, {"bar"}}, label \in labels}
FirstUnits == InventoryUnits("d1", {"none", "l1"}, {"none", "p"})
FirstLocals == InventoryLocals({<<"none", "none", "none">>, <<"none", "p", "none">>, <<"p", "none", "q">>})
StoredMappings ==
  {NoMapping, MappedTo("l1", "sku"), MappedTo("l2", "persisted"), Mapping("ambiguous", "none", "none", {"l1", "l2"}),
   Mapping("ambiguous", "sku", "l1", {"l1"})}
Tables ==
  UNION {[keys -> [mapping : StoredMappings, absent : {FALSE}]] : keys \in {{}, {"u1"}, {"u1", "u2"}}}
MappingCases ==
  [rule : {"mapping"}, table : Tables, initial : BOOLEAN,
   units : {[u1 |-> u] : u \in FirstUnits}
     \cup {[u1 |-> u, u2 |-> v] : u \in FirstUnits, v \in InventoryUnits("d2", {"none", "l2"}, {"none"})},
   locals : {[l1 |-> a] : a \in FirstLocals}
     \cup {[l1 |-> a, l2 |-> b] : a \in FirstLocals, b \in InventoryLocals({<<"none", "none", "none">>})}]

\* Two rows of the copy of Mercado Libre.
CopyRows(skus, locals, syncs, active, valid) ==
  [sku : skus, local : locals, mapping : {"mapped", "ambiguous"}, sync : syncs, active : active,
   age : {-1, 5, 20}, valid : valid]
CopyCases ==
  {[rule |-> "copy", rows |-> <<r, o>>, run |-> run, seller |-> seller] :
     r \in CopyRows({"s1", "none"}, {"l1"}, {"ok", "absent"}, {TRUE}, BOOLEAN),
     o \in CopyRows({"s1", "s2"}, {"l1", "l2"}, {"ok", "error"}, BOOLEAN, {TRUE}),
     run \in {"succeeded", "failed"}, seller \in {"expected", "other"}}
=============================================================================
