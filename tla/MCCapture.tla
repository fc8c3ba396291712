------------------------------ MODULE MCCapture ------------------------------
(***************************************************************************)
(* A person with a company on the top card, one without any and a longer   *)
(* name that contains the first one's, a company page, and the feed.       *)
(* Somebody else may add the first person or a namesake.                   *)
(***************************************************************************)
EXTENDS Capture

MCNames == {"Acme", "Berlin"}
MCUrls == {"/company/acme"}
MCRoles == {"Engineer"}
MCClean == [n \in MCNames \cup {""} |-> IF n = "Berlin" THEN "" ELSE n]
MCStrip == [n \in MCNames \cup {""} |-> n]
MCPlausible == {"Acme"}

Bare == [heading |-> "h", section |-> FALSE, metadata |-> "", headlines |-> <<NoHeadline>>,
         labels |-> <<>>, links |-> <<>>, button |-> "", sideLink |-> [name |-> "", url |-> ""],
         items |-> <<>>]

MCDom == [p \in {"ann", "namesake", "ann-lee", "acme", "feed"} |->
  CASE p = "ann" ->
         [Bare EXCEPT !.headlines = <<NoHeadline, [role |-> "Engineer", company |-> "Acme"]>>,
                      !.labels = <<[name |-> "Acme", url |-> ""]>>,
                      !.links = <<[name |-> "Berlin", url |-> "/company/acme"],
                                  [name |-> "Acme", url |-> "/company/acme"]>>]
    [] p = "ann-lee" -> [Bare EXCEPT !.section = TRUE]
    [] p = "feed" -> [Bare EXCEPT !.heading = ""]
    [] OTHER -> Bare]

MCNameOf == [p \in {"ann", "namesake", "ann-lee", "acme", "feed"} |->
  CASE p \in {"ann", "namesake"} -> "Ann"
    [] p = "ann-lee" -> "Ann Lee"
    [] OTHER -> "Acme"]

(***************************************************************************)
(* Merging the entries of one name, by what comes out: each name once, at  *)
(* the place it first had, with the first role and the first address       *)
(* anything of that name has.                                              *)
(***************************************************************************)
Named(s, n) == SelectSeq(s, LAMBDA x : x.name = n)
FirstRole(s) == FirstOf([i \in DOMAIN s |-> s[i].role])
FirstUrl(s) == FirstOf([i \in DOMAIN s |-> s[i].url])
Firsts(s) == {i \in DOMAIN s : s[i].name # "" /\ \A j \in 1..(i - 1) : s[j].name # s[i].name}
Reference(s) ==
  [k \in 1..Cardinality(Firsts(s)) |->
     LET i == CHOOSE i \in Firsts(s) : Cardinality({j \in Firsts(s) : j <= i}) = k
     IN  [name |-> s[i].name, url |-> FirstUrl(Named(s, s[i].name)),
          role |-> FirstRole(Named(s, s[i].name))]]

\* dedupeCompanyExperiences keeps nothing else and forgets nothing.
ASSUME MergesByName ==
  \A n \in 0..3 : \A s \in [1..n -> Experience] : dedupeCompanyExperiences(s) = Reference(s)

\* The scraper reads the pages above, and every top card of two labels and two
\* links: as many names as it keeps, it reads.
Lists == UNION {[1..n -> Link] : n \in 0..2}
ASSUME ReadsTopCards ==
  /\ \A p \in Pages \cup {Feed} : ReadsShown(Dom[p])
  /\ \A labels, anchors \in Lists :
       ReadsShown([Bare EXCEPT !.headlines = MCDom["ann"].headlines,
                               !.labels = labels, !.links = anchors])
=============================================================================
