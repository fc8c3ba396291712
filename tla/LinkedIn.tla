------------------------------- MODULE LinkedIn -------------------------------
(***************************************************************************)
(* What the browser extension reads off a LinkedIn page:                   *)
(* utils/linkedin-scraper.ts, and the companies the background makes of it *)
(* (profileCompanyExperiences in utils/crme-api.ts).                       *)
(*                                                                         *)
(* A page is what the selectors find on it: texts are model values, ""     *)
(* stands for nothing found.  The clean-up of a text is a function given   *)
(* as a constant; the order in which places are tried, what is skipped and *)
(* what is merged is the code's.                                           *)
(***************************************************************************)
EXTENDS Naturals, Sequences, SequencesExt

CONSTANTS
  Names,      \* texts that stand where a company's name is expected
  Urls,       \* addresses of company pages
  Roles,
  strip,      \* stripLinkedInNoise: a text without "logo" and the like
  cleanName,  \* cleanCompanyName: the name proper, or "" for a place or a skill
  plausible,  \* isPlausibleCompanyName
  MaxKept     \* dedupeCompanyExperiences keeps as many

Nothing == ""

ASSUME LinkedInAssumption ==
  /\ Nothing \notin Names \cup Urls \cup Roles
  /\ \A f \in {strip, cleanName} :
       f \in [Names \cup {Nothing} -> Names \cup {Nothing}] /\ f[Nothing] = Nothing
  /\ plausible \subseteq Names
  /\ MaxKept \in Nat \ {0}

Experience == [name : Names \cup {Nothing}, url : Urls \cup {Nothing},
               role : Roles \cup {Nothing}]

\* a || b || ...: the first place that gives something.
FirstOf(s) ==
  IF \E i \in DOMAIN s : s[i] # Nothing
    THEN s[CHOOSE i \in DOMAIN s : s[i] # Nothing /\ \A j \in 1..(i - 1) : s[j] = Nothing]
    ELSE Nothing

(***************************************************************************)
(* Merging entries of one name: the first keeps its place and takes the    *)
(* role and the address it lacks from a later one.                         *)
(***************************************************************************)
Merge(out, x) ==
  IF \E i \in DOMAIN out : out[i].name = x.name
    THEN [i \in DOMAIN out |->
            IF out[i].name # x.name THEN out[i]
            ELSE [out[i] EXCEPT !.role = FirstOf(<<@, x.role>>),
                                !.url = FirstOf(<<@, x.url>>)]]
    ELSE Append(out, x)

Merged(s) == FoldLeft(Merge, <<>>, s)

Upto(s, n) == SubSeq(s, 1, IF Len(s) < n THEN Len(s) ELSE n)

dedupeCompanyExperiences(s) ==
  Upto(Merged(SelectSeq(s, LAMBDA x : x.name # Nothing)), MaxKept)

-----------------------------------------------------------------------------
(***************************************************************************)
(* A profile: headlines are [role, company] or nothing in both; labels and *)
(* links are those of the top card, button the "Current company" button,   *)
(* sideLink the link tried if there is no button, items the entries of the *)
(* experience section.  The name comes from a heading or the metadata.     *)
(***************************************************************************)
Link == [name : Names \cup {Nothing}, url : Urls \cup {Nothing}]

roleFromHeadline(headline, n) == IF headline.company = n THEN headline.role ELSE Nothing

TopCardEntry(headline, l) ==
  [name |-> strip[l.name], url |-> l.url, role |-> roleFromHeadline(headline, strip[l.name])]

\* A label without an address is nothing; a link is a company link anyway.
scrapeTopCardCompanyExperiences(dom, headline) ==
  LET places == SelectSeq(dom.labels, LAMBDA l : l.url # Nothing) \o dom.links
  IN  dedupeCompanyExperiences([i \in DOMAIN places |-> TopCardEntry(headline, places[i])])

\* The button has a name and no address; without it the first company link.
scrapeCurrentCompanyFromProfile(dom) ==
  IF dom.button # Nothing THEN [name |-> dom.button, url |-> Nothing] ELSE dom.sideLink

\* One entry per linked company of an item that looks current; a name that
\* reads like a date, a place or a role is dropped.
ItemEntries(item) ==
  LET named == SelectSeq(item.links, LAMBDA l : /\ l.url # Nothing
                                                /\ strip[l.name] \in plausible)
  IN  IF ~item.current THEN <<>>
      ELSE [i \in DOMAIN named |-> [name |-> strip[named[i].name],
                                    url |-> item.links[1].url, role |-> item.role]]

scrapeCurrentCompanyExperiences(dom, headline, top, legacy) ==
  dedupeCompanyExperiences(
    top \o (IF legacy.name = Nothing \/ legacy.url = Nothing THEN <<>>
            ELSE <<[name |-> legacy.name, url |-> legacy.url,
                    role |-> roleFromHeadline(headline, legacy.name)]>>)
        \o FlattenSeq([i \in DOMAIN dom.items |-> ItemEntries(dom.items[i])]))

\* The name decides whether there is anything at all.
HasProfile(dom) == FirstOf(<<dom.heading, dom.metadata>>) # Nothing
scrapeCompanyPage(dom) == FirstOf(<<dom.heading, dom.metadata>>) # Nothing

\* From its element, else from the title, else from the description.
NoHeadline == [role |-> Nothing, company |-> Nothing]
Headline(dom) ==
  LET found == SelectSeq(dom.headlines, LAMBDA h : h # NoHeadline)
  IN  IF found = <<>> THEN NoHeadline ELSE found[1]

extractCompanyFromHeadline(headline) == headline.company

scrapePersonProfile(dom) ==
  LET headline == Headline(dom)
      top == scrapeTopCardCompanyExperiences(dom, headline)
      first == IF top # <<>> THEN [name |-> top[1].name, url |-> top[1].url]
               ELSE scrapeCurrentCompanyFromProfile(dom)
  IN  [currentCompany |-> FirstOf(<<first.name, extractCompanyFromHeadline(headline)>>),
       currentCompanyLinkedInUrl |-> first.url,
       headline |-> headline,
       companies |-> scrapeCurrentCompanyExperiences(dom, headline, top, first)]

\* scrapeFreshPageData scrolls to the experience section and tries again.
NoCompanyFound(data) == data.currentCompany = Nothing /\ data.companies = <<>>

-----------------------------------------------------------------------------
\* The companies a person gets linked to: cleaned once more, the current one
\* last if its address is known, each once, none without an address.
profileCompanyExperiences(data) ==
  LET named == [i \in DOMAIN data.companies |->
                  [data.companies[i] EXCEPT !.name = cleanName[@]]]
      fallback == cleanName[data.currentCompany]
      all == SelectSeq(named, LAMBDA x : x.name # Nothing)
             \o IF fallback = Nothing \/ data.currentCompanyLinkedInUrl = Nothing THEN <<>>
                ELSE <<[name |-> fallback, url |-> data.currentCompanyLinkedInUrl,
                        role |-> FirstOf(<<roleFromHeadline(data.headline, fallback),
                                           data.headline.role>>)]>>
  IN  Merged(SelectSeq(all, LAMBDA x : x.url # Nothing))
-----------------------------------------------------------------------------
\* The names the top card shows with an address, without places and skills.
Shown(dom) ==
  {cleanName[strip[l.name]] :
     l \in {m \in ToSet(dom.labels) \cup ToSet(dom.links) : m.url # Nothing}} \ {Nothing}

\* The scraper reads what the top card shows: no name is lost on the way from
\* the labels and links to the companies a person gets linked to, nor in a
\* merge of the scraped lists.
ReadsShown(dom) ==
  LET read == profileCompanyExperiences(scrapePersonProfile(dom))
  IN  /\ read \in Seq(Experience)
      /\ \A n \in Shown(dom) : \E i \in 1..Len(read) : read[i].name = n
=============================================================================
