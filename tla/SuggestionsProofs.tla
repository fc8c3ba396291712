-------------------------- MODULE SuggestionsProofs --------------------------
(***************************************************************************)
(* One entity per identifier, no sender forgotten, nothing suppressed or   *)
(* open suggested but by a sync that this overtook, and mail on the        *)
(* timeline: for any number of units of work, whatever fails.              *)
(***************************************************************************)
EXTENDS Suggestions, FiniteSetTheorems, SequenceTheorems, TLAPS

Steps == {"idle", "match", "deals", "screen", "exists", "create", "list", "history", "commit",
          "dismissed", "open"}

Activity == [msg : Messages, links : SUBSET (Entities \cup Deals \cup {None})]

Prompt ==
  {q \in [kind : {"new_contact", "new_company", "email_deal_link"}, target : Targets \cup Nat,
          deal : Deals \cup {None}, status : {"open", "accepted", "dismissed"}] :
     q.kind # "email_deal_link" => q.target \in Targets /\ q.kind = Kind(q.target)}

Work ==
  [step : Steps, msg : Messages \cup {None}, prompt : Nat, entity : Entities \cup {None},
   screen : Seq(Targets), history : SUBSET (Messages \X Nat), create : Targets \cup {None},
   link : SUBSET ((Targets \cup Nat) \X (Entities \cup Deals \cup {None})),
   attach : SUBSET (Messages \X Nat), suggest : Seq(Prompt)]

Types ==
  /\ stored \subseteq Messages
  /\ activityOf \in [Messages -> Nat]
  /\ activities \in Seq(Activity)
  /\ prompts \in Seq(Prompt)
  /\ primary \in [Entities -> Targets \cup {None}]
  /\ work \in [Workers -> Work]

-----------------------------------------------------------------------------
(* What the rows of a unit of work say of each other.                      *)

SyncSteps == {"match", "deals", "screen", "exists", "commit"}

\* A unit of work about a message syncs it; one about a suggestion knows it.
Shaped(t) ==
  /\ t.msg # None => t.step \in SyncSteps /\ t.create = None
  /\ t.step \in {"match", "deals", "screen", "exists"} => t.msg # None
  /\ t.step = "deals" => t.attach # {}
  /\ t.step = "exists" => t.screen # <<>>
  /\ t.step \in {"create", "list"} =>
       t.prompt \in DOMAIN prompts /\ prompts[t.prompt].kind # "email_deal_link"
  /\ t.step \in {"dismissed", "open"} => t.prompt \in DOMAIN prompts
  /\ t.step \in {"create", "list", "dismissed", "open"} => t.link = {} /\ t.attach = {}
  /\ t.step = "history" => t.history \subseteq stored \X Nat
  /\ t.step = "list" => t.entity \in Entities
  /\ t.step = "history" => t.entity \in Entities

\* The sender is known, or there is or was a suggestion about it.
Met(s) == Owners(s) # {} \/ \E p \in DOMAIN prompts : prompts[p].target = s

SenderNext(t, s) == t.screen # <<>> /\ Head(t.screen) = s
Suggested(t, s) == \E i \in DOMAIN t.suggest : t.suggest[i].target = s

\* While a message is processed its sender is still to be screened, known, or
\* among the suggestions to be committed.
SenderInHand(t) ==
  \A s \in Addresses :
    (t.msg # None /\ Sender[t.msg] = s) =>
      /\ t.step \in {"match", "deals"} => SenderNext(t, s)
      /\ t.step \in {"screen", "exists"} => SenderNext(t, s) \/ Met(s) \/ Suggested(t, s)
      /\ t.step = "commit" => Met(s) \/ Suggested(t, s)

\* What is suppressed was suggested.
SuppressedWasSuggested ==
  \A x \in suppressed : \E p \in DOMAIN prompts : prompts[p].kind = x[1] /\ prompts[p].target = x[2]

\* A row about to be inserted has an id and an identifier of its own.
Claimed(t) ==
  t.create # None =>
    /\ t.create \in Targets /\ t.entity \in Entities /\ primary[t.entity] = None
    /\ \A e \in Entities : primary[e] # t.create
Apart(t, u) == t.create # None /\ u.create # None => t.entity # u.entity /\ t.create # u.create

Fits(t) == Shaped(t) /\ SenderInHand(t) /\ Claimed(t)

SuggestInv ==
  /\ Types
  /\ \A w \in Workers : Fits(work[w])
  /\ \A v, w \in Workers : v # w => Apart(work[v], work[w])
  /\ SuppressedWasSuggested
  /\ OneEntityPerIdentifier
  /\ SenderAccountedFor

-----------------------------------------------------------------------------
(* Sequences and records.                                                  *)

LEMMA SetToSeqType ==
  ASSUME NEW S, IsFiniteSet(S)
  PROVE  SetToSeq(S) \in Seq(S)
<1> DEFINE n == Cardinality(S)
<1>1. n \in Nat /\ ExistsBijection(1..n, S)
  BY FS_CardinalityType
<1> HIDE DEF n
<1>2. PICK f \in [1..n -> S] : IsInjective(f)
  BY <1>1 DEF ExistsBijection, Bijection, Injection, IsInjective
<1>3. SetToSeq(S) \in [1..n -> S]
  BY <1>2 DEF SetToSeq, n
<1> QED BY <1>1, <1>3

LEMMA DealSuggestions ==
  ASSUME NEW D \in SUBSET Deals, NEW id \in Nat
  PROVE  LET S == {SuggestDeal(d, id) : d \in D}
         IN  /\ SetToSeq(S) \in Seq(Prompt)
             /\ \A i \in DOMAIN SetToSeq(S) : \E c \in D : SetToSeq(S)[i] = SuggestDeal(c, id)
<1> DEFINE S == {SuggestDeal(d, id) : d \in D}
<1>1. IsFiniteSet(D)
  BY SuggestionsAssumption, FS_Subset
<1>2. IsFiniteSet(S)
  <2> DEFINE f == [d \in D |-> SuggestDeal(d, id)]
  <2>1. f \in Surjection(D, S)
    BY DEF Surjection
  <2> HIDE DEF f, S
  <2> QED BY <1>1, <2>1, FS_Surjection
<1>3. S \subseteq Prompt
  BY DEF SuggestDeal, Prompt
<1> HIDE DEF S
<1>4. SetToSeq(S) \in Seq(S)
  BY <1>2, SetToSeqType
<1>5. \A i \in DOMAIN SetToSeq(S) : SetToSeq(S)[i] \in S
  BY <1>4, ElementOfSeq, LenProperties
<1>6. SetToSeq(S) \in Seq(Prompt)
  BY <1>3, <1>4, SeqMonotonic
<1> QED BY <1>5, <1>6 DEF S

LEMMA PromptFields ==
  ASSUME NEW q \in Prompt, NEW status \in {"open", "accepted", "dismissed"}
  PROVE  /\ [q EXCEPT !.status = status] \in Prompt
         /\ [q EXCEPT !.status = status].kind = q.kind
         /\ [q EXCEPT !.status = status].target = q.target
         /\ [q EXCEPT !.status = status].deal = q.deal
         /\ [q EXCEPT !.status = status].status = status
BY DEF Prompt

\* Sequences of suggestions and the status of one of them.
LEMMA StatusSet ==
  ASSUME NEW ps \in Seq(Prompt), NEW p \in DOMAIN ps,
         NEW status \in {"open", "accepted", "dismissed"},
         NEW new, new = [ps EXCEPT ![p].status = status]
  PROVE  /\ new \in Seq(Prompt) /\ DOMAIN new = DOMAIN ps
         /\ \A i \in DOMAIN ps : new[i].kind = ps[i].kind /\ new[i].target = ps[i].target
<1>1. ps[p] \in Prompt
  BY ElementOfSeq, LenProperties
<1>2. PICK q : q = [ps[p] EXCEPT !.status = status]
  OBVIOUS
<1>3. q \in Prompt /\ q.kind = ps[p].kind /\ q.target = ps[p].target
  BY <1>1, <1>2, PromptFields
<1>4. new = [ps EXCEPT ![p] = q]
  BY <1>2
<1>5. p \in 1..Len(ps) /\ DOMAIN ps = 1..Len(ps)
  BY LenProperties
<1>6. /\ [ps EXCEPT ![p] = q] \in Seq(Prompt)
      /\ \A j \in 1..Len(ps) : [ps EXCEPT ![p] = q][j] = IF j = p THEN q ELSE ps[j]
  BY <1>3, <1>5, ExceptSeq
<1> QED BY <1>3, <1>4, <1>5, <1>6

\* What a commit makes of the suggestions.
Committed(ps, p, new) ==
  [i \in DOMAIN ps |-> IF i = p THEN [ps[i] EXCEPT !.status = "accepted"] ELSE ps[i]] \o new

LEMMA CommittedPrompts ==
  ASSUME NEW ps \in Seq(Prompt), NEW p, NEW new \in Seq(Prompt)
  PROVE  /\ Committed(ps, p, new) \in Seq(Prompt)
         /\ DOMAIN Committed(ps, p, new) = 1..(Len(ps) + Len(new))
         /\ \A i \in DOMAIN ps : /\ Committed(ps, p, new)[i].kind = ps[i].kind
                                 /\ Committed(ps, p, new)[i].target = ps[i].target
         /\ \A i \in DOMAIN new : Committed(ps, p, new)[Len(ps) + i] = new[i]
<1> DEFINE old == [i \in DOMAIN ps |-> IF i = p THEN [ps[i] EXCEPT !.status = "accepted"]
                                                ELSE ps[i]]
<1>1. Len(ps) \in Nat /\ DOMAIN ps = 1..Len(ps) /\ Len(new) \in Nat /\ DOMAIN new = 1..Len(new)
  BY LenProperties
<1>2. ASSUME NEW i \in DOMAIN ps
      PROVE  old[i] \in Prompt /\ old[i].kind = ps[i].kind /\ old[i].target = ps[i].target
  <2>1. ps[i] \in Prompt
    BY <1>1, ElementOfSeq
  <2>2. PICK q : q = [ps[i] EXCEPT !.status = "accepted"]
    OBVIOUS
  <2>3. q \in Prompt /\ q.kind = ps[i].kind /\ q.target = ps[i].target
    BY <2>1, <2>2, PromptFields
  <2>4. old[i] = IF i = p THEN q ELSE ps[i]
    BY <2>2
  <2> QED BY <2>1, <2>3, <2>4
<1>3. old = [i \in 1..Len(ps) |-> old[i]]
  BY <1>1
<1>4. Committed(ps, p, new) = old \o new
  BY DEF Committed
<1> HIDE DEF old
<1>5. old \in Seq(Prompt) /\ Len(old) = Len(ps)
  BY <1>1, <1>2, <1>3
<1>10. DOMAIN old = 1..Len(ps)
  BY <1>3
<1>6. /\ old \o new \in Seq(Prompt) /\ Len(old \o new) = Len(ps) + Len(new)
      /\ \A i \in 1..(Len(ps) + Len(new)) :
           (old \o new)[i] = IF i <= Len(ps) THEN old[i] ELSE new[i - Len(ps)]
  <2>1. /\ old \o new \in Seq(Prompt) /\ Len(old \o new) = Len(old) + Len(new)
        /\ \A i \in 1..(Len(old) + Len(new)) :
             (old \o new)[i] = IF i <= Len(old) THEN old[i] ELSE new[i - Len(old)]
    BY <1>5, ConcatProperties
  <2> QED BY <1>5, <2>1
<1>7. DOMAIN (old \o new) = 1..(Len(ps) + Len(new))
  BY <1>6, LenProperties
<1>8. ASSUME NEW i \in DOMAIN ps
      PROVE  /\ (old \o new)[i].kind = ps[i].kind /\ (old \o new)[i].target = ps[i].target
  BY <1>1, <1>2, <1>6
<1>9. ASSUME NEW i \in DOMAIN new PROVE (old \o new)[Len(ps) + i] = new[i]
  BY <1>1, <1>6
<1> QED BY <1>4, <1>6, <1>7, <1>8, <1>9

-----------------------------------------------------------------------------
(* Units of work.                                                          *)

\* A unit of work with another step and other reads and writes.
Goes(t, u, step, screen, history, link, attach, suggest) ==
  /\ u \in Work
  /\ u.step = step /\ u.screen = screen /\ u.history = history
  /\ u.link = link /\ u.attach = attach /\ u.suggest = suggest
  /\ u.msg = t.msg /\ u.prompt = t.prompt /\ u.entity = t.entity /\ u.create = t.create

LEMMA StepUpdate ==
  ASSUME NEW t \in Work, NEW step \in Steps,
         NEW new, new = [t EXCEPT !.step = step]
  PROVE  Goes(t, new, step, t.screen, t.history, t.link, t.attach, t.suggest)
BY DEF Work, Goes

LEMMA ScreenUpdate ==
  ASSUME NEW t \in Work, NEW screen \in Seq(Targets),
         NEW new, new = [t EXCEPT !.screen = screen]
  PROVE  Goes(t, new, t.step, screen, t.history, t.link, t.attach, t.suggest)
BY DEF Work, Goes

LEMMA HistoryUpdate ==
  ASSUME NEW t \in Work, NEW step \in Steps,
         NEW history \in SUBSET (Messages \X Nat),
         NEW new, new = [t EXCEPT !.step = step, !.history = history]
  PROVE  Goes(t, new, step, t.screen, history, t.link, t.attach, t.suggest)
BY DEF Work, Goes

LEMMA AttachUpdate ==
  ASSUME NEW t \in Work, NEW step \in Steps,
         NEW attach \in SUBSET (Messages \X Nat),
         NEW new, new = [t EXCEPT !.step = step, !.attach = attach]
  PROVE  Goes(t, new, step, t.screen, t.history, t.link, attach, t.suggest)
BY DEF Work, Goes

LEMMA SuggestUpdate ==
  ASSUME NEW t \in Work, NEW step \in Steps,
         NEW suggest \in Seq(Prompt),
         NEW new, new = [t EXCEPT !.step = step, !.suggest = suggest]
  PROVE  Goes(t, new, step, t.screen, t.history, t.link, t.attach, suggest)
BY DEF Work, Goes

LEMMA SenderUpdate ==
  ASSUME NEW t \in Work, NEW step \in Steps,
         NEW screen \in Seq(Targets),
         NEW suggest \in Seq(Prompt),
         NEW new, new = [t EXCEPT !.step = step, !.screen = screen, !.suggest = suggest]
  PROVE  Goes(t, new, step, screen, t.history, t.link, t.attach, suggest)
BY DEF Work, Goes

LEMMA HistoryLinkUpdate ==
  ASSUME NEW t \in Work, NEW history \in SUBSET (Messages \X Nat),
         NEW link \in SUBSET ((Targets \cup Nat) \X (Entities \cup Deals \cup {None})),
         NEW new, new = [t EXCEPT !.history = history, !.link = link]
  PROVE  Goes(t, new, t.step, t.screen, history, link, t.attach, t.suggest)
BY DEF Work, Goes

LEMMA HistoryAttachUpdate ==
  ASSUME NEW t \in Work, NEW history \in SUBSET (Messages \X Nat),
         NEW attach \in SUBSET (Messages \X Nat),
         NEW new, new = [t EXCEPT !.history = history, !.attach = attach]
  PROVE  Goes(t, new, t.step, t.screen, history, t.link, attach, t.suggest)
BY DEF Work, Goes

LEMMA NoWorkType == NoWork \in Work
<1>1. <<>> \in Seq(Targets) /\ <<>> \in Seq(Prompt)
  OBVIOUS
<1> QED BY <1>1 DEF NoWork, Work, Steps

LEMMA NothingFits == Fits(NoWork)
<1>1. SenderInHand(NoWork)
  BY DEF SenderInHand, NoWork
<1>2. Shaped(NoWork)
  BY DEF Shaped, NoWork
<1>3. Claimed(NoWork)
  BY DEF Claimed, NoWork
<1> QED BY <1>1, <1>2, <1>3 DEF Fits

-----------------------------------------------------------------------------
(* What one unit of work does to the others.                               *)

\* No committed row another unit of work relies on goes away.
Grows ==
  /\ stored \subseteq stored'
  /\ DOMAIN prompts \subseteq DOMAIN prompts'
  /\ \A p \in DOMAIN prompts : /\ prompts'[p].kind = prompts[p].kind
                               /\ prompts'[p].target = prompts[p].target
  /\ \A t \in Targets : Owners(t) # {} => Owners(t)' # {}

LEMMA GrowsKeeps ==
  ASSUME Grows, NEW t, t.history \subseteq Messages \X Nat, Shaped(t), SenderInHand(t)
  PROVE  Shaped(t)' /\ SenderInHand(t)'
<1>1. Shaped(t)'
  BY DEF Grows, Shaped
<1>2. ASSUME NEW s \in Addresses, Met(s) PROVE Met(s)'
  BY <1>2 DEF Grows, Met, Targets
<1>3. SenderInHand(t)'
  BY <1>2 DEF SenderInHand, SenderNext, Suggested
<1> QED BY <1>1, <1>3

\* A unit of work that went from one state to the next unchanged.
LEMMA FitsNow ==
  ASSUME NEW w \in Workers, NEW t, work'[w] = t, Fits(t)'
  PROVE  Fits(work[w])'
<1>1. Shaped(work[w])'
  BY DEF Fits, Shaped
<1>2. SenderInHand(work[w])'
  BY DEF Fits, SenderInHand, SenderNext, Suggested, Met
<1>3. Claimed(work[w])'
  BY DEF Fits, Claimed
<1> QED BY <1>1, <1>2, <1>3 DEF Fits

LEMMA GrowsSuppressed ==
  ASSUME Grows, SuppressedWasSuggested, suppressed' \subseteq suppressed
  PROVE  SuppressedWasSuggested'
BY DEF Grows, SuppressedWasSuggested

LEMMA GrowsAccounted ==
  ASSUME Types, Grows, SenderAccountedFor, stored' \subseteq stored
  PROVE  SenderAccountedFor'
<1> SUFFICES ASSUME NEW m \in stored', Sender[m] # None
             PROVE  Owners(Sender[m])' # {} \/ \E p \in DOMAIN prompts' : prompts'[p].target = Sender[m]
  BY DEF SenderAccountedFor
<1>1. m \in stored /\ Sender[m] \in Targets
  BY SuggestionsAssumption DEF Types, Targets
<1>2. CASE Owners(Sender[m]) # {}
  BY <1>1, <1>2 DEF Grows
<1>3. CASE \E p \in DOMAIN prompts : prompts[p].target = Sender[m]
  BY <1>3 DEF Grows
<1> QED BY <1>1, <1>2, <1>3 DEF SenderAccountedFor

\* One unit of work takes a step.
LEMMA StepKeeps ==
  ASSUME SuggestInv, NEW w \in Workers, NEW new \in Work, Becomes(w, new), Grows, Fits(new)',
         \A v \in Workers \ {w} : Apart(new, work[v]) /\ Claimed(work[v])',
         stored' \subseteq Messages, activityOf' \in [Messages -> Nat],
         activities' \in Seq(Activity), prompts' \in Seq(Prompt),
         primary' \in [Entities -> Targets \cup {None}],
         SuppressedWasSuggested', OneEntityPerIdentifier', SenderAccountedFor'
  PROVE  SuggestInv'
<1>1. work' = [work EXCEPT ![w] = new] /\ work \in [Workers -> Work]
  BY DEF Becomes, SuggestInv, Types
<1>2. work' \in [Workers -> Work]
  BY <1>1
<1>3. ASSUME NEW v \in Workers PROVE Fits(work[v])'
  <2>1. CASE v = w
    BY <1>1, <2>1, FitsNow
  <2>2. CASE v # w
    <3>1. PICK t : t = work[v]
      OBVIOUS
    <3>2. t \in Work /\ Shaped(t) /\ SenderInHand(t)
      BY <1>1, <3>1 DEF SuggestInv, Fits
    <3>3. t.history \subseteq Messages \X Nat
      BY <3>2 DEF Work
    <3>4. Shaped(t)' /\ SenderInHand(t)'
      BY <3>2, <3>3, GrowsKeeps
    <3>5. work'[v] = t
      BY <1>1, <2>2, <3>1
    <3>6. Claimed(t)'
      <4>1. Claimed(work[v])'
        BY <2>2
      <4> QED BY <3>5, <4>1 DEF Claimed
    <3> QED BY <3>4, <3>5, <3>6, FitsNow DEF Fits
  <2> QED BY <2>1, <2>2
<1>4. ASSUME NEW u \in Workers, NEW v \in Workers, u # v PROVE Apart(work'[u], work'[v])
  <2>1. CASE u # w /\ v # w
    BY <1>1, <1>4, <2>1 DEF SuggestInv
  <2>2. CASE u = w
    BY <1>1, <1>4, <2>2
  <2>3. CASE v = w
    BY <1>1, <1>4, <2>3 DEF Apart
  <2> QED BY <2>1, <2>2, <2>3
<1>5. Types'
  BY <1>2 DEF Types
<1>6. \A u, v \in Workers : u # v => Apart(work[u], work[v])'
  BY <1>4 DEF Apart
<1> QED BY <1>3, <1>5, <1>6 DEF SuggestInv

\* One unit of work takes a step that commits at most an activity.
LEMMA PrivateStep ==
  ASSUME SuggestInv, NEW w \in Workers, NEW new \in Work, Becomes(w, new), Fits(new),
         \A v \in Workers \ {w} : Apart(new, work[v]),
         activities' \in Seq(Activity),
         UNCHANGED <<stored, activityOf, prompts, suppressed, primary, extra>>
  PROVE  SuggestInv'
<1>1. \A t : Owners(t)' = Owners(t)
  BY DEF Owners
<1>2. Grows
  BY <1>1 DEF Grows
<1>3. Fits(new)'
  BY <1>1 DEF Fits, Shaped, SenderInHand, Claimed, Met
<1>4. ASSUME NEW v \in Workers \ {w} PROVE Claimed(work[v])'
  <2>1. work'[v] = work[v] /\ Claimed(work[v])
    BY DEF SuggestInv, Fits, Becomes, Types
  <2> QED BY <2>1 DEF Claimed
<1>5. SuppressedWasSuggested'
  BY <1>2, GrowsSuppressed DEF SuggestInv
<1>6. SenderAccountedFor'
  BY <1>2, GrowsAccounted DEF SuggestInv
<1>7. OneEntityPerIdentifier'
  BY DEF SuggestInv, OneEntityPerIdentifier
<1>8. /\ stored' \subseteq Messages /\ activityOf' \in [Messages -> Nat]
      /\ prompts' \in Seq(Prompt) /\ primary' \in [Entities -> Targets \cup {None}]
  BY DEF SuggestInv, Types
<1> QED BY <1>2, <1>3, <1>4, <1>5, <1>6, <1>7, <1>8, StepKeeps

\* Giving up what has not been committed, or beginning, claims nothing.
LEMMA NothingClaimed ==
  ASSUME NEW t, t.create = None, NEW u
  PROVE  Apart(t, u) /\ Claimed(t)
BY DEF Apart, Claimed

LEMMA SuggestInvInit == Init => SuggestInv
<1> SUFFICES ASSUME Init PROVE SuggestInv
  OBVIOUS
<1>1. Types
  <2>1. <<>> \in Seq(Activity) /\ <<>> \in Seq(Prompt)
    OBVIOUS
  <2> QED BY <2>1, NoWorkType, SuggestionsAssumption DEF Init, Types
<1>2. \A w \in Workers : work[w] = NoWork
  BY DEF Init
<1>3. \A w \in Workers : Fits(work[w])
  BY <1>2, NothingFits
<1>4. \A v, w \in Workers : v # w => Apart(work[v], work[w])
  BY <1>2 DEF Apart, NoWork
<1>5. OneEntityPerIdentifier
  BY SuggestionsAssumption DEF Init, OneEntityPerIdentifier
<1>6. SuppressedWasSuggested /\ SenderAccountedFor
  BY DEF Init, SuppressedWasSuggested, SenderAccountedFor
<1> QED BY <1>1, <1>3, <1>4, <1>5, <1>6 DEF SuggestInv

-----------------------------------------------------------------------------
(* Each action.                                                            *)

LEMMA UpsertKeeps ==
  ASSUME SuggestInv, NEW w \in Workers, NEW m \in Messages, UpsertEmailMessage(w, m)
  PROVE  SuggestInv'
<1>1. PICK new : new = [NoWork EXCEPT !.step = "match", !.msg = m, !.screen = Screening(m)]
  OBVIOUS
<1>2. /\ Screening(m) \in Seq(Targets)
      /\ Sender[m] # None => Screening(m) # <<>> /\ Head(Screening(m)) = Sender[m]
  <2>1. Sender[m] # None => Sender[m] \in Targets
    BY SuggestionsAssumption DEF Targets
  <2>2. CASE Sender[m] = None
    BY <2>2 DEF Screening
  <2>3. CASE Sender[m] # None /\ DomainOf[Sender[m]] = None
    BY <2>1, <2>3 DEF Screening
  <2>4. CASE Sender[m] # None /\ DomainOf[Sender[m]] # None
    <3>1. DomainOf[Sender[m]] \in Targets
      BY <2>4, SuggestionsAssumption DEF Targets
    <3> QED BY <2>1, <2>4, <3>1 DEF Screening
  <2> QED BY <2>2, <2>3, <2>4
<1>3. /\ new \in Work /\ new.create = None /\ new.msg = m /\ new.step = "match"
      /\ new.screen = Screening(m)
  <2>1. /\ new.create = None /\ new.msg = m /\ new.step = "match" /\ new.screen = Screening(m)
    BY <1>1 DEF NoWork
  <2>2. new \in Work
    BY <1>1, <1>2, NoWorkType DEF Work, Steps
  <2> QED BY <2>1, <2>2
<1>4. Fits(new)
  <2>1. Shaped(new)
    BY <1>3, SuggestionsAssumption DEF Shaped, SyncSteps
  <2>2. SenderInHand(new)
    BY <1>2, <1>3, SuggestionsAssumption DEF SenderInHand, SenderNext
  <2> QED BY <1>3, <2>1, <2>2, NothingClaimed DEF Fits
<1>5. \A v \in Workers \ {w} : Apart(new, work[v])
  BY <1>3, NothingClaimed
<1>6. activities' \in Seq(Activity)
  BY DEF UpsertEmailMessage, SuggestInv, Types
<1> QED BY <1>1, <1>3, <1>4, <1>5, <1>6, PrivateStep DEF UpsertEmailMessage

\* A unit of work as the invariant finds it.
LEMMA WorkInHand ==
  ASSUME SuggestInv, NEW w \in Workers
  PROVE  work[w] \in Work /\ Fits(work[w])
BY DEF SuggestInv, Types

\* A step that keeps what a unit of work claims.
LEMMA StillApart ==
  ASSUME SuggestInv, NEW w \in Workers, NEW new, new.create = work[w].create,
         new.entity = work[w].entity
  PROVE  /\ \A v \in Workers \ {w} : Apart(new, work[v])
         /\ Claimed(work[w]) => Claimed(new)
BY DEF SuggestInv, Apart, Claimed

LEMMA TimelineKeeps ==
  ASSUME SuggestInv, NEW w \in Workers, linkEmailToTimeline(w)
  PROVE  SuggestInv'
<1> DEFINE t == work[w]
<1>1. t \in Work /\ Fits(t)
  BY WorkInHand
<1>2. t.step = "match" /\ t.msg \in Messages /\ t.create = None
  BY <1>1 DEF linkEmailToTimeline, Fits, Shaped, Work
<1>3. ASSUME NEW step \in {"screen", "deals"}, NEW attach \in SUBSET (Messages \X Nat),
             NEW new, Goes(t, new, step, t.screen, t.history, t.link, attach, t.suggest),
             step = "deals" => attach # {},
             Becomes(w, new), activities' \in Seq(Activity)
      PROVE  SuggestInv'
  <2>1. Shaped(new)
    BY <1>1, <1>2, <1>3 DEF Goes, Fits, Shaped, SyncSteps
  <2>2. SenderInHand(new)
    BY <1>1, <1>2, <1>3 DEF Goes, Fits, SenderInHand, SenderNext
  <2>3. Fits(new) /\ \A v \in Workers \ {w} : Apart(new, work[v])
    BY <1>2, <1>3, <2>1, <2>2, NothingClaimed DEF Fits, Goes
  <2> QED BY <1>3, <2>3, PrivateStep DEF linkEmailToTimeline, Goes
<1>4. CASE Becomes(w, [t EXCEPT !.step = "screen"]) /\ UNCHANGED activities
  <2>1. PICK new : new = [t EXCEPT !.step = "screen"]
    OBVIOUS
  <2>2. Goes(t, new, "screen", t.screen, t.history, t.link, t.attach, t.suggest)
    BY <1>1, <2>1, StepUpdate DEF Steps
  <2>3. t.attach \in SUBSET (Messages \X Nat)
    BY <1>1 DEF Work
  <2>4. activities' \in Seq(Activity)
    BY <1>4 DEF SuggestInv, Types
  <2> QED BY <1>3, <1>4, <2>1, <2>2, <2>3, <2>4
<1>5. ASSUME NEW links \in SUBSET Entities,
             activities' = Append(activities, [msg |-> t.msg, links |-> links]),
             Becomes(w, [t EXCEPT !.step = "deals", !.attach = {<<t.msg, Len(activities) + 1>>}])
      PROVE  SuggestInv'
  <2>1. PICK attach : attach = {<<t.msg, Len(activities) + 1>>}
    OBVIOUS
  <2>2. attach \in SUBSET (Messages \X Nat) /\ attach # {}
    BY <1>2, <2>1, LenProperties DEF SuggestInv, Types
  <2>3. PICK new : new = [t EXCEPT !.step = "deals", !.attach = attach]
    OBVIOUS
  <2>4. Goes(t, new, "deals", t.screen, t.history, t.link, attach, t.suggest)
    BY <1>1, <2>2, <2>3, AttachUpdate DEF Steps
  <2>5. activities' \in Seq(Activity)
    <3>1. [msg |-> t.msg, links |-> links] \in Activity
      BY <1>2 DEF Activity
    <3> QED BY <1>5, <3>1, AppendProperties DEF SuggestInv, Types
  <2> QED BY <1>3, <1>5, <2>1, <2>2, <2>3, <2>4, <2>5
<1>6. CASE ~(Becomes(w, [t EXCEPT !.step = "screen"]) /\ UNCHANGED activities)
  <2> DEFINE known == {a \in relevantEmails(t.msg) : Owners(a) # {}}
  <2>1. /\ Becomes(w, [t EXCEPT !.step = "deals", !.attach = {<<t.msg, Len(activities) + 1>>}])
        /\ \E found \in [known -> Entities] :
             activities' = Append(activities, [msg |-> t.msg, links |-> {found[a] : a \in known}])
    BY <1>6, Zenon DEF linkEmailToTimeline
  <2> HIDE DEF known
  <2>2. PICK found \in [known -> Entities] :
          activities' = Append(activities, [msg |-> t.msg, links |-> {found[a] : a \in known}])
    BY <2>1
  <2>3. {found[a] : a \in known} \in SUBSET Entities
    OBVIOUS
  <2> QED BY <1>5, <2>1, <2>2, <2>3
<1> QED BY <1>4, <1>6

\* A step of the sync of a message that commits nothing.
LEMMA SyncStep ==
  ASSUME SuggestInv, NEW w \in Workers, work[w].msg \in Messages,
         NEW new \in Work, Becomes(w, new), new.step \in SyncSteps, new.step # "deals",
         new.msg = work[w].msg, new.create = work[w].create, new.entity = work[w].entity,
         new.step = "exists" => new.screen # <<>>, SenderInHand(new),
         UNCHANGED <<stored, activityOf, activities, prompts, suppressed, primary, extra>>
  PROVE  SuggestInv'
<1>1. work[w] \in Work /\ Fits(work[w])
  BY WorkInHand
<1>2. work[w].msg # None /\ work[w].create = None
  BY <1>1, SuggestionsAssumption DEF Fits, Shaped
<1>3. Shaped(new)
  BY <1>2 DEF Shaped, SyncSteps
<1>4. Fits(new) /\ \A v \in Workers \ {w} : Apart(new, work[v])
  BY <1>2, <1>3, NothingClaimed DEF Fits
<1>5. activities' \in Seq(Activity)
  BY DEF SuggestInv, Types
<1> QED BY <1>4, <1>5, PrivateStep

LEMMA DealsKeeps ==
  ASSUME SuggestInv, NEW w \in Workers, suggestDealLinks(w)
  PROVE  SuggestInv'
<1> DEFINE t == work[w]
           id == (CHOOSE x \in t.attach : TRUE)[2]
           deals == {d \in Deals : /\ \E e \in activities[id].links : <<d, e>> \in DealPeople
                                   /\ ~OpenDealPrompt(d)}
           asked == SetToSeq({SuggestDeal(d, id) : d \in deals})
<1>1. t \in Work /\ Fits(t) /\ t.step = "deals"
  BY WorkInHand DEF suggestDealLinks
<1>2. t.attach # {} /\ t.attach \subseteq Messages \X Nat /\ t.msg \in Messages
  BY <1>1 DEF Fits, Shaped, Work
<1>3. id \in Nat
  BY <1>2
<1>4. asked \in Seq(Prompt)
  <2>1. deals \in SUBSET Deals
    OBVIOUS
  <2> HIDE DEF deals, id
  <2> QED BY <1>3, <2>1, DealSuggestions
<1>5. /\ Becomes(w, [t EXCEPT !.step = "screen", !.suggest = asked])
      /\ UNCHANGED <<stored, activityOf, activities, prompts, suppressed, primary, extra>>
  BY Zenon DEF suggestDealLinks
<1> HIDE DEF asked
<1>6. PICK new : new = [t EXCEPT !.step = "screen", !.suggest = asked]
  OBVIOUS
<1>7. Goes(t, new, "screen", t.screen, t.history, t.link, t.attach, asked)
  BY <1>1, <1>4, <1>6, SuggestUpdate DEF Steps
<1>8. SenderInHand(new)
  BY <1>1, <1>2, <1>7 DEF Goes, Fits, SenderInHand, SenderNext
<1> QED BY <1>2, <1>5, <1>6, <1>7, <1>8, SyncStep DEF Goes, SyncSteps

\* The sender at the head of a screening.
LEMMA HeadTail ==
  ASSUME NEW t \in Work, t.screen # <<>>
  PROVE  Head(t.screen) \in Targets /\ Tail(t.screen) \in Seq(Targets)
<1>1. t.screen \in Seq(Targets)
  BY DEF Work
<1> QED BY <1>1, HeadTailProperties

LEMMA ScreenKeeps ==
  ASSUME SuggestInv, NEW w \in Workers, ScreenSender(w)
  PROVE  SuggestInv'
<1> DEFINE t == work[w]
           s == Head(t.screen)
<1>1. t \in Work /\ Fits(t) /\ t.step = "screen"
  BY WorkInHand DEF ScreenSender
<1>2. t.msg \in Messages
  BY <1>1 DEF Fits, Shaped, Work
<1>3. ASSUME NEW step \in {"screen", "exists", "commit"},
             Becomes(w, [t EXCEPT !.step = step]),
             step = "exists" => t.screen # <<>>,
             step = "commit" => \A a \in Addresses : SenderNext(t, a) => Met(a)
      PROVE  SuggestInv'
  <2>1. PICK new : new = [t EXCEPT !.step = step]
    OBVIOUS
  <2>2. Goes(t, new, step, t.screen, t.history, t.link, t.attach, t.suggest)
    BY <1>1, <2>1, StepUpdate DEF Steps
  <2>3. SenderInHand(new)
    BY <1>1, <1>3, <2>2 DEF Goes, Fits, SenderInHand, SenderNext, Suggested
  <2> QED BY <1>2, <1>3, <2>1, <2>2, <2>3, SyncStep DEF Goes, SyncSteps, ScreenSender
<1>4. CASE t.screen = <<>>
  <2>1. Becomes(w, [t EXCEPT !.step = "commit"])
    BY <1>4 DEF ScreenSender
  <2> QED BY <1>3, <1>4, <2>1 DEF SenderNext
<1>5. CASE t.screen # <<>> /\ Owners(s) # {}
  <2>1. Becomes(w, [t EXCEPT !.screen = Tail(t.screen)])
    BY <1>5 DEF ScreenSender
  <2>2. PICK new : new = [t EXCEPT !.screen = Tail(t.screen)]
    OBVIOUS
  <2>3. Goes(t, new, t.step, Tail(t.screen), t.history, t.link, t.attach, t.suggest)
    BY <1>1, <1>5, <2>2, HeadTail, ScreenUpdate
  <2>4. SenderInHand(new)
    BY <1>1, <1>5, <2>3 DEF Goes, Fits, SenderInHand, SenderNext, Suggested, Met
  <2> QED BY <1>1, <1>2, <2>1, <2>2, <2>3, <2>4, SyncStep DEF Goes, SyncSteps, ScreenSender
<1>6. CASE t.screen # <<>> /\ Owners(s) = {} /\ <<Kind(s), s>> \in suppressed
  <2>1. Becomes(w, [t EXCEPT !.step = "commit"])
    BY <1>6 DEF ScreenSender
  <2>2. Met(s)
    BY <1>6 DEF SuggestInv, SuppressedWasSuggested, Met
  <2>3. \A a \in Addresses : SenderNext(t, a) => Met(a)
    BY <2>2 DEF SenderNext
  <2> QED BY <1>3, <2>1, <2>3
<1>7. CASE t.screen # <<>> /\ Owners(s) = {} /\ <<Kind(s), s>> \notin suppressed
  <2>1. Becomes(w, [t EXCEPT !.step = "exists"])
    BY <1>7 DEF ScreenSender
  <2> QED BY <1>3, <1>7, <2>1
<1> QED BY <1>4, <1>5, <1>6, <1>7

LEMMA AppendSuggestion ==
  ASSUME NEW g \in Seq(Prompt), NEW q \in Prompt
  PROVE  /\ Append(g, q) \in Seq(Prompt)
         /\ \A i \in DOMAIN g : i \in DOMAIN Append(g, q) /\ Append(g, q)[i] = g[i]
         /\ \E i \in DOMAIN Append(g, q) : Append(g, q)[i] = q
         /\ \A i \in DOMAIN Append(g, q) :
              Append(g, q)[i] = q \/ (i \in DOMAIN g /\ Append(g, q)[i] = g[i])
<1>1. /\ Append(g, q) \in Seq(Prompt) /\ Len(Append(g, q)) = Len(g) + 1
      /\ \A i \in 1..Len(g) : Append(g, q)[i] = g[i]
      /\ Append(g, q)[Len(g) + 1] = q
  BY AppendProperties
<1>2. DOMAIN g = 1..Len(g) /\ Len(g) \in Nat /\ DOMAIN Append(g, q) = 1..(Len(g) + 1)
  BY <1>1, LenProperties
<1> QED BY <1>1, <1>2

LEMMA SuggestSenderKeeps ==
  ASSUME SuggestInv, NEW w \in Workers, SuggestSender(w)
  PROVE  SuggestInv'
<1> DEFINE t == work[w]
           s == Head(t.screen)
<1>1. t \in Work /\ Fits(t) /\ t.step = "exists"
  BY WorkInHand DEF SuggestSender
<1>2. t.msg \in Messages /\ t.screen # <<>>
  BY <1>1 DEF Fits, Shaped, Work
<1>3. ASSUME NEW asked \in Seq(Prompt),
             Becomes(w, [t EXCEPT !.step = "screen", !.screen = Tail(t.screen), !.suggest = asked]),
             \A i \in DOMAIN t.suggest : i \in DOMAIN asked /\ asked[i] = t.suggest[i],
             Met(s) \/ \E i \in DOMAIN asked : asked[i].target = s
      PROVE  SuggestInv'
  <2>1. PICK new : new = [t EXCEPT !.step = "screen", !.screen = Tail(t.screen), !.suggest = asked]
    OBVIOUS
  <2>2. Goes(t, new, "screen", Tail(t.screen), t.history, t.link, t.attach, asked)
    BY <1>1, <1>2, <2>1, HeadTail, SenderUpdate DEF Steps
  <2>3. SenderInHand(new)
    <3> SUFFICES ASSUME NEW a \in Addresses, t.msg # None, Sender[t.msg] = a
                 PROVE  Met(a) \/ Suggested(new, a)
      BY <2>2 DEF Goes, SenderInHand
    <3>1. SenderNext(t, a) \/ Met(a) \/ Suggested(t, a)
      BY <1>1 DEF Fits, SenderInHand
    <3>2. SenderNext(t, a) => Met(a) \/ Suggested(new, a)
      BY <1>3, <2>2 DEF SenderNext, Suggested, Goes
    <3>3. Suggested(t, a) => Suggested(new, a)
      BY <1>3, <2>2 DEF Suggested, Goes
    <3> QED BY <3>1, <3>2, <3>3
  <2> QED BY <1>2, <1>3, <2>1, <2>2, <2>3, SyncStep DEF Goes, SyncSteps, SuggestSender
<1>4. t.suggest \in Seq(Prompt)
  BY <1>1 DEF Work
<1>5. CASE OpenPrompt(Kind(s), s)
  <2>1. Becomes(w, [t EXCEPT !.step = "screen", !.screen = Tail(t.screen), !.suggest = t.suggest])
    BY <1>5 DEF SuggestSender
  <2>2. Met(s)
    BY <1>5 DEF OpenPrompt, Met
  <2> QED BY <1>3, <1>4, <2>1, <2>2
<1>6. CASE ~OpenPrompt(Kind(s), s)
  <2>1. PICK asked : asked = Append(t.suggest, Suggest(s))
    OBVIOUS
  <2>2. Becomes(w, [t EXCEPT !.step = "screen", !.screen = Tail(t.screen), !.suggest = asked])
    BY <1>6, <2>1 DEF SuggestSender
  <2>3. Suggest(s) \in Prompt /\ Suggest(s).target = s
    BY <1>1, <1>2, HeadTail DEF Suggest, Prompt, Kind
  <2>4. /\ asked \in Seq(Prompt)
        /\ \A i \in DOMAIN t.suggest : i \in DOMAIN asked /\ asked[i] = t.suggest[i]
        /\ \E i \in DOMAIN asked : asked[i] = Suggest(s)
    BY <1>4, <2>1, <2>3, AppendSuggestion
  <2>5. \E i \in DOMAIN asked : asked[i].target = s
    BY <2>3, <2>4
  <2> QED BY <1>3, <2>2, <2>4, <2>5
<1> QED BY <1>5, <1>6

\* A unit of work about a suggestion, with nothing committed but activities.
LEMMA RequestStep ==
  ASSUME SuggestInv, NEW w \in Workers, NEW new \in Work, Becomes(w, new),
         new.msg = None, Shaped(new), activities' \in Seq(Activity),
         \/ new.create = None
         \/ new.create = work[w].create /\ new.entity = work[w].entity,
         UNCHANGED <<stored, activityOf, prompts, suppressed, primary, extra>>
  PROVE  SuggestInv'
<1>1. SenderInHand(new)
  BY DEF SenderInHand
<1>2. Claimed(new) /\ \A v \in Workers \ {w} : Apart(new, work[v])
  BY NothingClaimed, StillApart, WorkInHand DEF Fits
<1> QED BY <1>1, <1>2, PrivateStep DEF Fits

LEMMA RollbackKeeps ==
  ASSUME SuggestInv, NEW w \in Workers, Becomes(w, NoWork), 
         UNCHANGED <<stored, activityOf, activities, prompts, suppressed, primary, extra>>
  PROVE  SuggestInv'
<1>1. NoWork.msg = None /\ NoWork.create = None /\ NoWork \in Work /\ Shaped(NoWork)
  BY NoWorkType, NothingFits DEF NoWork, Fits
<1>2. activities' \in Seq(Activity)
  BY DEF SuggestInv, Types
<1> QED BY <1>1, <1>2, RequestStep

\* Suggestions as the invariant has them.
LEMMA PromptsType ==
  ASSUME SuggestInv, NEW p \in DOMAIN prompts
  PROVE  /\ p \in Nat /\ prompts[p] \in Prompt
         /\ prompts[p].target \in Targets \cup Nat /\ prompts[p].deal \in Deals \cup {None}
         /\ prompts[p].kind # "email_deal_link" =>
              prompts[p].target \in Targets /\ prompts[p].kind = Kind(prompts[p].target)
<1>1. prompts \in Seq(Prompt)
  BY DEF SuggestInv, Types
<1>2. p \in Nat /\ prompts[p] \in Prompt
  BY <1>1, ElementOfSeq, LenProperties
<1> QED BY <1>2 DEF Prompt

LEMMA AcceptKeeps ==
  ASSUME SuggestInv, NEW w \in Workers, NEW p \in DOMAIN prompts, AcceptPrompt(w, p)
  PROVE  SuggestInv'
<1> DEFINE s == prompts[p]
<1>1. activities' \in Seq(Activity)
  BY DEF AcceptPrompt, SuggestInv, Types
<1>2. CASE s.kind = "email_deal_link"
  <2>1. PICK link : link = {<<s.target, s.deal>>}
    OBVIOUS
  <2>2. link \in SUBSET ((Targets \cup Nat) \X (Entities \cup Deals \cup {None}))
    BY <2>1, PromptsType
  <2>3. PICK new : new = [NoWork EXCEPT !.step = "commit", !.prompt = p, !.link = link]
    OBVIOUS
  <2>4. Becomes(w, new)
    BY <1>2, <2>1, <2>3 DEF AcceptPrompt
  <2>5. new \in Work
    BY <2>2, <2>3, NoWorkType, PromptsType DEF Work, Steps
  <2>6. new.step = "commit" /\ new.msg = None /\ new.create = None
    BY <2>3 DEF NoWork
  <2>7. Shaped(new)
    BY <2>6 DEF Shaped
  <2> QED BY <1>1, <2>4, <2>5, <2>6, <2>7, RequestStep DEF AcceptPrompt
<1>3. CASE s.kind # "email_deal_link"
  <2>1. PICK step \in {"create", "commit"} :
          step = IF Owners(s.target) = {} THEN "create" ELSE "commit"
    OBVIOUS
  <2>2. PICK new : new = [NoWork EXCEPT !.step = step, !.prompt = p]
    OBVIOUS
  <2>3. Becomes(w, new)
    BY <1>3, <2>1, <2>2 DEF AcceptPrompt
  <2>4. new \in Work
    BY <2>2, NoWorkType, PromptsType DEF Work, Steps
  <2>5. /\ new.step = step /\ new.prompt = p /\ new.msg = None /\ new.create = None
        /\ new.link = {} /\ new.attach = {}
    BY <2>2 DEF NoWork
  <2>6. Shaped(new)
    BY <1>3, <2>1, <2>5 DEF Shaped
  <2> QED BY <1>1, <2>3, <2>4, <2>5, <2>6, RequestStep DEF AcceptPrompt
<1> QED BY <1>2, <1>3

LEMMA CreateKeeps ==
  ASSUME SuggestInv, NEW w \in Workers, NEW e \in Entities, CreateEntity(w, e)
  PROVE  SuggestInv'
<1> DEFINE t == work[w]
           s == prompts[t.prompt]
<1>1. t \in Work /\ Fits(t) /\ t.step = "create"
  BY WorkInHand DEF CreateEntity
<1>2. /\ t.msg = None /\ t.prompt \in DOMAIN prompts /\ s.kind # "email_deal_link"
      /\ t.link = {} /\ t.attach = {}
  BY <1>1 DEF Fits, Shaped, SyncSteps
<1>3. s.target \in Targets
  BY <1>2, PromptsType
<1>4. CASE ~IdentifierFree(s.target)
  BY <1>4, RollbackKeeps DEF CreateEntity
<1>5. CASE IdentifierFree(s.target)
  <2>1. PICK step \in {"list", "commit"} :
          step = IF s.kind = "new_contact" THEN "list" ELSE "commit"
    OBVIOUS
  <2>2. PICK target \in Targets : target = s.target
    BY <1>3
  <2>3. PICK new : new = [t EXCEPT !.entity = e, !.create = target, !.step = step]
    OBVIOUS
  <2>4. Becomes(w, new)
    BY <1>5, <2>1, <2>2, <2>3 DEF CreateEntity
  <2>5. new \in Work
    BY <1>1, <2>3 DEF Work, Steps
  <2>6. /\ new.step = step /\ new.prompt = t.prompt /\ new.msg = None /\ new.create = target
        /\ new.entity = e /\ new.link = {} /\ new.attach = {}
    BY <1>1, <1>2, <2>3 DEF Work
  <2>7. Shaped(new) /\ SenderInHand(new)
    BY <1>2, <2>6 DEF Shaped, SenderInHand
  <2>8. Claimed(new)
    BY <1>5, <2>2, <2>6 DEF Claimed, CreateEntity, IdentifierFree
  <2>9. \A v \in Workers \ {w} : Apart(new, work[v])
    BY <2>2, <2>6 DEF Apart, CreateEntity
  <2>10. activities' \in Seq(Activity)
    BY DEF CreateEntity, SuggestInv, Types
  <2> QED BY <2>4, <2>5, <2>7, <2>8, <2>9, <2>10, PrivateStep DEF CreateEntity, Fits
<1> QED BY <1>4, <1>5

LEMMA ListKeeps ==
  ASSUME SuggestInv, NEW w \in Workers, ListHistory(w)
  PROVE  SuggestInv'
<1> DEFINE t == work[w]
<1>0. PICK listed \in SUBSET stored :
        Becomes(w, [t EXCEPT !.step = "history", !.history = {<<m, activityOf[m]>> : m \in listed}])
  BY DEF ListHistory, MailOf
<1> DEFINE found == {<<m, activityOf[m]>> : m \in listed}
<1>1. t \in Work /\ Fits(t) /\ t.step = "list"
  BY WorkInHand DEF ListHistory
<1>2. t.msg = None /\ t.entity \in Entities
  BY <1>1 DEF Fits, Shaped, SyncSteps
<1>3. found \subseteq stored \X Nat /\ stored \subseteq Messages
  BY DEF SuggestInv, Types
<1>4. Becomes(w, [t EXCEPT !.step = "history", !.history = found])
  BY <1>0
<1> HIDE DEF found
<1>5. PICK new : new = [t EXCEPT !.step = "history", !.history = found]
  OBVIOUS
<1>6. Goes(t, new, "history", t.screen, found, t.link, t.attach, t.suggest)
  <2>1. found \in SUBSET (Messages \X Nat)
    BY <1>3
  <2> QED BY <1>1, <1>5, <2>1, HistoryUpdate DEF Steps
<1>7. Shaped(new)
  BY <1>2, <1>3, <1>6 DEF Goes, Shaped
<1>8. activities' \in Seq(Activity)
  BY DEF ListHistory, SuggestInv, Types
<1> QED BY <1>2, <1>4, <1>5, <1>6, <1>7, <1>8, RequestStep DEF Goes, ListHistory

LEMMA HistoryKeeps ==
  ASSUME SuggestInv, NEW w \in Workers, LinkHistoricalEmail(w)
  PROVE  SuggestInv'
<1> DEFINE t == work[w]
           id == Len(activities) + 1
<1>1. t \in Work /\ Fits(t) /\ t.step = "history"
  BY WorkInHand DEF LinkHistoricalEmail
<1>2. /\ t.msg = None /\ t.entity \in Entities /\ t.history \subseteq stored \X Nat
      /\ t.history \in SUBSET (Messages \X Nat) /\ t.attach \in SUBSET (Messages \X Nat)
      /\ t.link \in SUBSET ((Targets \cup Nat) \X (Entities \cup Deals \cup {None}))
  BY <1>1 DEF Fits, Shaped, SyncSteps, Work
<1>3. activities \in Seq(Activity) /\ id \in Nat
  BY LenProperties DEF SuggestInv, Types
<1>4. ASSUME NEW new, NEW history \in SUBSET t.history, NEW link, NEW attach,
             \/ Goes(t, new, "history", t.screen, history, link, attach, t.suggest)
             \/ Goes(t, new, "commit", t.screen, history, link, attach, t.suggest),
             Becomes(w, new), activities' \in Seq(Activity)
      PROVE  SuggestInv'
  <2>1. Shaped(new)
    BY <1>2, <1>4 DEF Goes, Shaped
  <2> QED BY <1>2, <1>4, <2>1, RequestStep DEF Goes, LinkHistoricalEmail
<1>5. CASE Becomes(w, [t EXCEPT !.step = "commit"]) /\ UNCHANGED activities
  <2>1. PICK new : new = [t EXCEPT !.step = "commit"]
    OBVIOUS
  <2>2. Goes(t, new, "commit", t.screen, t.history, t.link, t.attach, t.suggest)
    BY <1>1, <2>1, StepUpdate DEF Steps
  <2> QED BY <1>3, <1>4, <1>5, <2>1, <2>2
<1>6. ASSUME NEW h \in t.history, UNCHANGED activities,
             Becomes(w, [t EXCEPT !.history = t.history \ {h},
                                  !.link = t.link \cup {<<h[2], t.entity>>}])
      PROVE  SuggestInv'
  <2>1. PICK history, link : history = t.history \ {h} /\ link = t.link \cup {<<h[2], t.entity>>}
    OBVIOUS
  <2>2. /\ history \in SUBSET t.history /\ history \in SUBSET (Messages \X Nat)
        /\ link \in SUBSET ((Targets \cup Nat) \X (Entities \cup Deals \cup {None}))
    BY <1>2, <2>1
  <2>3. PICK new : new = [t EXCEPT !.history = history, !.link = link]
    OBVIOUS
  <2>4. Goes(t, new, "history", t.screen, history, link, t.attach, t.suggest)
    BY <1>1, <2>2, <2>3, HistoryLinkUpdate
  <2>5. Becomes(w, new)
    BY <1>6, <2>1, <2>3
  <2> QED BY <1>3, <1>4, <1>6, <2>2, <2>4, <2>5
<1>7. ASSUME NEW h \in t.history,
             activities' = Append(activities, [msg |-> h[1], links |-> {t.entity}]),
             Becomes(w, [t EXCEPT !.history = t.history \ {h},
                                  !.attach = t.attach \cup {<<h[1], id>>}])
      PROVE  SuggestInv'
  <2>1. PICK history, attach : history = t.history \ {h} /\ attach = t.attach \cup {<<h[1], id>>}
    OBVIOUS
  <2>2. /\ history \in SUBSET t.history /\ history \in SUBSET (Messages \X Nat)
        /\ attach \in SUBSET (Messages \X Nat)
    BY <1>2, <1>3, <2>1
  <2>3. PICK new : new = [t EXCEPT !.history = history, !.attach = attach]
    OBVIOUS
  <2>4. Goes(t, new, "history", t.screen, history, t.link, attach, t.suggest)
    BY <1>1, <2>2, <2>3, HistoryAttachUpdate
  <2>5. Becomes(w, new)
    BY <1>7, <2>1, <2>3
  <2>6. activities' \in Seq(Activity)
    <3>1. [msg |-> h[1], links |-> {t.entity}] \in Activity
      BY <1>2 DEF Activity
    <3> QED BY <1>3, <1>7, <3>1, AppendProperties
  <2> QED BY <1>4, <2>2, <2>4, <2>5, <2>6
<1>8. CASE Becomes(w, NoWork) /\ UNCHANGED activities
  BY <1>8, RollbackKeeps DEF LinkHistoricalEmail
<1> QED BY <1>5, <1>6, <1>7, <1>8, Zenon DEF LinkHistoricalEmail

\* A step that changes the status of a suggestion or gives somebody an
\* identifier, and leaves its unit of work claiming nothing.
LEMMA RowsStep ==
  ASSUME SuggestInv, NEW w \in Workers, NEW new \in Work, Becomes(w, new),
         prompts' \in Seq(Prompt), DOMAIN prompts' = DOMAIN prompts,
         \A p \in DOMAIN prompts : /\ prompts'[p].kind = prompts[p].kind
                                   /\ prompts'[p].target = prompts[p].target,
         extra \subseteq extra',
         \/ new = work[w]
         \/ new.msg = None /\ new.create = None /\ Shaped(new),
         SuppressedWasSuggested',
         UNCHANGED <<stored, activityOf, activities, primary>>
  PROVE  SuggestInv'
<1>1. Grows
  BY DEF Grows, Owners
<1>2. Shaped(new) /\ SenderInHand(new) /\ new.history \subseteq Messages \X Nat
  <2>1. new.history \subseteq Messages \X Nat
    BY DEF Work
  <2>2. CASE new = work[w]
    BY <2>1, <2>2, WorkInHand DEF Fits
  <2>3. CASE new # work[w]
    BY <2>1, <2>3 DEF SenderInHand
  <2> QED BY <2>2, <2>3
<1>3. Claimed(new) /\ \A v \in Workers \ {w} : Apart(new, work[v])
  <2>1. CASE new = work[w]
    BY <2>1, WorkInHand DEF Fits, SuggestInv
  <2>2. CASE new # work[w]
    BY <2>2, NothingClaimed
  <2> QED BY <2>1, <2>2
<1>4. Fits(new)'
  <2>1. Shaped(new)' /\ SenderInHand(new)'
    BY <1>1, <1>2, GrowsKeeps
  <2>2. Claimed(new)'
    BY <1>3 DEF Claimed
  <2> QED BY <2>1, <2>2 DEF Fits
<1>5. ASSUME NEW v \in Workers \ {w} PROVE Claimed(work[v])'
  <2>1. work'[v] = work[v] /\ Claimed(work[v])
    BY DEF SuggestInv, Fits, Becomes, Types
  <2> QED BY <2>1 DEF Claimed
<1>6. SenderAccountedFor'
  BY <1>1, GrowsAccounted DEF SuggestInv
<1>7. OneEntityPerIdentifier'
  BY DEF SuggestInv, OneEntityPerIdentifier
<1>8. /\ stored' \subseteq Messages /\ activityOf' \in [Messages -> Nat]
      /\ activities' \in Seq(Activity) /\ primary' \in [Entities -> Targets \cup {None}]
  BY DEF SuggestInv, Types
<1> QED BY <1>1, <1>3, <1>4, <1>5, <1>6, <1>7, <1>8, StepKeeps

LEMMA LinkPersonKeeps ==
  ASSUME SuggestInv, NEW w \in Workers, NEW p \in DOMAIN prompts, NEW e \in Entities,
         LinkSuggestionToPerson(w, p, e)
  PROVE  SuggestInv'
<1>1. PICK new : new = [NoWork EXCEPT !.step = "list", !.prompt = p, !.entity = e]
  OBVIOUS
<1>2. /\ new.step = "list" /\ new.prompt = p /\ new.entity = e /\ new.msg = None
      /\ new.create = None /\ new.link = {} /\ new.attach = {}
  BY <1>1 DEF NoWork
<1>3. new \in Work
  BY <1>1, NoWorkType, PromptsType DEF Work, Steps
<1>4. Shaped(new)
  BY <1>2 DEF Shaped, LinkSuggestionToPerson
<1>5. prompts' \in Seq(Prompt) /\ SuppressedWasSuggested'
  BY DEF LinkSuggestionToPerson, SuggestInv, Types, SuppressedWasSuggested
<1> QED BY <1>1, <1>2, <1>3, <1>4, <1>5, RowsStep DEF LinkSuggestionToPerson

\* A suggestion gets another status.
LEMMA StatusKeeps ==
  ASSUME SuggestInv, NEW w \in Workers, NEW new \in Work, Becomes(w, new),
         NEW p \in DOMAIN prompts, NEW status \in {"open", "accepted", "dismissed"},
         prompts' = [prompts EXCEPT ![p].status = status],
         \/ new = work[w]
         \/ new = NoWork,
         extra \subseteq extra',
         UNCHANGED <<stored, activityOf, activities, suppressed, primary>>
  PROVE  SuggestInv'
<1>1. prompts \in Seq(Prompt)
  BY DEF SuggestInv, Types
<1>2. /\ prompts' \in Seq(Prompt) /\ DOMAIN prompts' = DOMAIN prompts
      /\ \A i \in DOMAIN prompts : /\ prompts'[i].kind = prompts[i].kind
                                   /\ prompts'[i].target = prompts[i].target
  <2>1. PICK ps : ps = [prompts EXCEPT ![p].status = status]
    OBVIOUS
  <2>2. /\ ps \in Seq(Prompt) /\ DOMAIN ps = DOMAIN prompts
        /\ \A i \in DOMAIN prompts : /\ ps[i].kind = prompts[i].kind
                                     /\ ps[i].target = prompts[i].target
    BY SMTT(40), <1>1, <2>1, StatusSet
  <2>3. prompts' = ps
    BY <2>1
  <2> QED BY <2>2, <2>3
<1>3. SuppressedWasSuggested'
  BY <1>2 DEF SuggestInv, SuppressedWasSuggested
<1>4. \/ new = work[w]
      \/ new.msg = None /\ new.create = None /\ Shaped(new)
  <2>1. NoWork.msg = None /\ NoWork.create = None
    BY DEF NoWork
  <2> QED BY <2>1, NothingFits DEF Fits
<1> QED BY <1>2, <1>3, <1>4, RowsStep

\* A unit of work that stays as it is.
LEMMA Stays ==
  ASSUME SuggestInv, NEW w \in Workers, work' = work
  PROVE  Becomes(w, work[w])
BY DEF Becomes, SuggestInv, Types

LEMMA LinkCompanyKeeps ==
  ASSUME SuggestInv, NEW w \in Workers, NEW p \in DOMAIN prompts, NEW e \in Entities,
         LinkSuggestionToCompany(w, p, e)
  PROVE  SuggestInv'
BY Stays, WorkInHand, StatusKeeps DEF LinkSuggestionToCompany

LEMMA ResolveKeeps ==
  ASSUME SuggestInv, NEW w \in Workers, NEW p \in DOMAIN prompts,
         NEW status \in {"accepted", "dismissed", "open"}, ResolvePrompt(w, p, status)
  PROVE  SuggestInv'
BY Stays, WorkInHand, StatusKeeps DEF ResolvePrompt

LEMMA ResolveSuppressedKeeps ==
  ASSUME SuggestInv, NEW w \in Workers, ResolveSuppressed(w)
  PROVE  SuggestInv'
<1>1. work[w].prompt \in DOMAIN prompts
  BY WorkInHand DEF ResolveSuppressed, Fits, Shaped
<1> QED BY <1>1, NoWorkType, StatusKeeps DEF ResolveSuppressed

LEMMA SuppressKeeps ==
  ASSUME SuggestInv, NEW w \in Workers, NEW p \in DOMAIN prompts,
         SuppressPrompt(w, p) \/ UnsuppressPrompt(w, p)
  PROVE  SuggestInv'
<1> SUFFICES ASSUME NEW step \in {"dismissed", "open"},
                    Becomes(w, [NoWork EXCEPT !.step = step, !.prompt = p]),
                    UNCHANGED <<stored, activityOf, activities, prompts, primary, extra>>,
                    suppressed' \subseteq suppressed \cup {<<prompts[p].kind, prompts[p].target>>}
             PROVE  SuggestInv'
  <2>1. CASE SuppressPrompt(w, p)
    BY <2>1 DEF SuppressPrompt
  <2>2. CASE UnsuppressPrompt(w, p)
    BY <2>2 DEF UnsuppressPrompt
  <2> QED BY <2>1, <2>2
<1>2. PICK new : new = [NoWork EXCEPT !.step = step, !.prompt = p]
  OBVIOUS
<1>3. /\ new.step = step /\ new.prompt = p /\ new.msg = None /\ new.create = None
      /\ new.link = {} /\ new.attach = {}
  BY <1>2 DEF NoWork
<1>4. new \in Work
  BY <1>2, NoWorkType, PromptsType DEF Work, Steps
<1>5. Shaped(new)
  BY <1>3 DEF Shaped
<1>6. prompts' \in Seq(Prompt) /\ SuppressedWasSuggested'
  BY DEF SuggestInv, Types, SuppressedWasSuggested
<1> QED BY <1>2, <1>3, <1>4, <1>5, <1>6, RowsStep

\* The types of what a unit of work commits.
LEMMA CommitTypes ==
  ASSUME SuggestInv, NEW w \in Workers, Commit(w)
  PROVE  /\ stored' \subseteq Messages
         /\ activityOf' \in [Messages -> Nat]
         /\ activities' \in Seq(Activity)
         /\ primary' \in [Entities -> Targets \cup {None}]
<1> DEFINE t == work[w]
<1>1. t \in Work /\ Fits(t) /\ t.step = "commit"
  BY WorkInHand DEF Commit
<1>2. stored' \subseteq Messages
  BY <1>1 DEF Commit, SuggestInv, Types, Work
<1>3. activityOf' \in [Messages -> Nat]
  <2>1. t.attach \subseteq Messages \X Nat
    BY <1>1 DEF Work
  <2>2. ASSUME NEW m \in Messages, \E x \in t.attach : x[1] = m
        PROVE  (CHOOSE x \in t.attach : x[1] = m)[2] \in Nat
    <3>1. (CHOOSE x \in t.attach : x[1] = m) \in t.attach
      BY <2>2
    <3> QED BY <2>1, <3>1
  <2>3. activityOf \in [Messages -> Nat]
    BY DEF SuggestInv, Types
  <2> QED BY <2>2, <2>3 DEF Commit, Attach
<1>4. activities' \in Seq(Activity)
  <2>1. activities \in Seq(Activity) /\ DOMAIN activities = 1..Len(activities) /\ Len(activities) \in Nat
    BY LenProperties DEF SuggestInv, Types
  <2>2. ASSUME NEW a \in DOMAIN activities
        PROVE  [activities[a] EXCEPT !.links = @ \cup {x[2] : x \in {y \in t.link : y[1] = a}}]
               \in Activity
    <3>1. activities[a] \in Activity
      BY <2>1, ElementOfSeq
    <3>2. t.link \subseteq (Targets \cup Nat) \X (Entities \cup Deals \cup {None})
      BY <1>1 DEF Work
    <3>3. PICK l : l = {x[2] : x \in {y \in t.link : y[1] = a}}
      OBVIOUS
    <3>4. l \subseteq Entities \cup Deals \cup {None}
      BY <3>2, <3>3
    <3> QED BY <3>1, <3>3, <3>4 DEF Activity
  <2>3. activities' = [a \in 1..Len(activities) |->
                         [activities[a] EXCEPT
                            !.links = @ \cup {x[2] : x \in {y \in t.link : y[1] = a}}]]
    BY <2>1 DEF Commit
  <2> QED BY <2>1, <2>2, <2>3
<1>5. primary' \in [Entities -> Targets \cup {None}]
  BY <1>1 DEF Commit, SuggestInv, Types, Fits, Claimed
<1> QED BY <1>2, <1>3, <1>4, <1>5

LEMMA CommitKeeps ==
  ASSUME SuggestInv, NEW w \in Workers, Commit(w)
  PROVE  SuggestInv'
<1> DEFINE t == work[w]
<1>1. t \in Work /\ Fits(t) /\ t.step = "commit"
  BY WorkInHand DEF Commit
<1>2. prompts \in Seq(Prompt) /\ t.suggest \in Seq(Prompt)
  BY <1>1 DEF SuggestInv, Types, Work
<1>3. prompts' = Committed(prompts, t.prompt, t.suggest)
  BY DEF Commit, Committed
<1>4. /\ Len(prompts) \in Nat /\ DOMAIN prompts = 1..Len(prompts)
      /\ Len(t.suggest) \in Nat /\ DOMAIN t.suggest = 1..Len(t.suggest)
  BY <1>2, LenProperties
<1>5. /\ prompts' \in Seq(Prompt) /\ DOMAIN prompts' = 1..(Len(prompts) + Len(t.suggest))
      /\ \A p \in DOMAIN prompts : /\ prompts'[p].kind = prompts[p].kind
                                   /\ prompts'[p].target = prompts[p].target
      /\ \A i \in DOMAIN t.suggest : prompts'[Len(prompts) + i] = t.suggest[i]
  BY <1>2, <1>3, CommittedPrompts
<1>6. /\ primary \in [Entities -> Targets \cup {None}]
      /\ t.create = None => primary' = primary
      /\ t.create # None =>
           /\ t.create \in Targets /\ t.entity \in Entities
           /\ primary[t.entity] = None /\ \A e \in Entities : primary[e] # t.create
           /\ primary' = [primary EXCEPT ![t.entity] = t.create]
  BY <1>1 DEF Commit, SuggestInv, Types, Fits, Claimed
<1>7. ASSUME NEW s \in Targets, NEW e \in Owners(s) PROVE e \in Owners(s)'
  <2>1. e \in Entities /\ (primary[e] = s \/ <<e, s>> \in extra') /\ s # None
    BY SuggestionsAssumption DEF Owners, Commit, Targets
  <2>2. primary[e] = s => primary'[e] = s
    BY <1>6, <2>1
  <2> QED BY <2>1, <2>2 DEF Owners
<1>8. Grows
  <2>1. DOMAIN prompts \subseteq DOMAIN prompts'
    BY <1>4, <1>5
  <2>2. stored \subseteq stored'
    BY DEF Commit
  <2> QED BY <1>5, <1>7, <2>1, <2>2 DEF Grows
<1>9. OneEntityPerIdentifier'
  BY <1>6 DEF SuggestInv, OneEntityPerIdentifier
<1>10. SuppressedWasSuggested'
  BY <1>8, GrowsSuppressed DEF SuggestInv, Commit
<1>11. SenderAccountedFor'
  <2> SUFFICES ASSUME NEW m \in stored', Sender[m] # None
               PROVE  \/ Owners(Sender[m])' # {}
                      \/ \E p \in DOMAIN prompts' : prompts'[p].target = Sender[m]
    BY DEF SenderAccountedFor
  <2>1. Sender[m] \in Addresses /\ Sender[m] \in Targets
    <3>1. m \in Messages
      BY CommitTypes
    <3> QED BY <3>1, SuggestionsAssumption DEF Targets
  <2>2. Met(Sender[m]) \/ Suggested(t, Sender[m])
    <3>1. CASE m \in stored
      BY <3>1 DEF SuggestInv, SenderAccountedFor, Met
    <3>2. CASE m \notin stored
      <4>1. t.msg = m /\ t.msg # None
        BY <3>2 DEF Commit
      <4> QED BY <1>1, <2>1, <4>1 DEF Fits, SenderInHand
    <3> QED BY <3>1, <3>2
  <2>3. CASE Owners(Sender[m]) # {}
    BY <1>7, <2>1, <2>3
  <2>4. CASE \E p \in DOMAIN prompts : prompts[p].target = Sender[m]
    BY <1>8, <2>4 DEF Grows
  <2>5. CASE Suggested(t, Sender[m])
    <3>1. PICK i \in DOMAIN t.suggest : t.suggest[i].target = Sender[m]
      BY <2>5 DEF Suggested
    <3>2. Len(prompts) + i \in DOMAIN prompts'
      BY <1>4, <1>5
    <3> QED BY <1>5, <3>1, <3>2
  <2> QED BY <2>2, <2>3, <2>4, <2>5 DEF Met
<1>12. ASSUME NEW v \in Workers \ {w} PROVE Claimed(work[v])'
  <2>1. work'[v] = work[v] /\ Claimed(work[v]) /\ Apart(work[v], t)
    BY DEF SuggestInv, Fits, Becomes, Types, Commit
  <2> QED BY <1>6, <2>1 DEF Claimed, Apart
<1>13. Fits(NoWork)'
  <2>1. SenderInHand(NoWork)'
    BY DEF SenderInHand, NoWork
  <2>2. Shaped(NoWork)'
    BY DEF Shaped, NoWork
  <2>3. Claimed(NoWork)'
    BY DEF Claimed, NoWork
  <2> QED BY <2>1, <2>2, <2>3 DEF Fits
<1>14. \A v \in Workers \ {w} : Apart(NoWork, work[v])
  BY DEF Apart, NoWork
<1> QED BY <1>5, <1>8, <1>9, <1>10, <1>11, <1>12, <1>13, <1>14, CommitTypes, NoWorkType, StepKeeps
        DEF Commit

\* The invariant is inductive.
LEMMA SuggestInvNext ==
  ASSUME SuggestInv, [Next]_vars
  PROVE  SuggestInv'
<1>1. CASE UNCHANGED vars
  <2> USE <1>1 DEF vars
  <2>1. Types'
    BY DEF SuggestInv, Types
  <2>2. ASSUME NEW w \in Workers PROVE Fits(work[w])'
    <3>1. Shaped(work[w])'
      BY DEF SuggestInv, Fits, Shaped
    <3>2. SenderInHand(work[w])'
      <4>1. \A s : Met(s)' <=> Met(s)
        BY DEF Met, Owners
      <4>2. SenderInHand(work[w])
        BY DEF SuggestInv, Fits
      <4> QED BY <4>1, <4>2 DEF SenderInHand, SenderNext, Suggested
    <3>3. Claimed(work[w])'
      BY DEF SuggestInv, Fits, Claimed
    <3> QED BY <3>1, <3>2, <3>3 DEF Fits
  <2>3. \A u, v \in Workers : u # v => Apart(work[u], work[v])'
    BY DEF SuggestInv, Apart
  <2>4. SuppressedWasSuggested' /\ OneEntityPerIdentifier'
    BY DEF SuggestInv, SuppressedWasSuggested, OneEntityPerIdentifier
  <2>5. SenderAccountedFor'
    BY DEF SuggestInv, SenderAccountedFor, Owners
  <2> QED BY <2>1, <2>2, <2>3, <2>4, <2>5 DEF SuggestInv
<1>2. ASSUME NEW w \in Workers, Sync(w) PROVE SuggestInv'
  BY <1>2, UpsertKeeps, TimelineKeeps, DealsKeeps, ScreenKeeps, SuggestSenderKeeps DEF Sync
<1>3. ASSUME NEW w \in Workers, Resolve(w) PROVE SuggestInv'
  BY <1>3, AcceptKeeps, CreateKeeps, LinkPersonKeeps, ListKeeps, HistoryKeeps, LinkCompanyKeeps,
     ResolveKeeps, SuppressKeeps, ResolveSuppressedKeeps DEF Resolve
<1>4. ASSUME NEW w \in Workers, Rollback(w) PROVE SuggestInv'
  BY <1>4, RollbackKeeps DEF Rollback
<1> QED BY <1>1, <1>2, <1>3, <1>4, CommitKeeps DEF Next

\* In every reachable state the rows and the units of work fit each other.
THEOREM SuggestInvariant == Spec => []SuggestInv
<1> QED BY SuggestInvInit, SuggestInvNext, PTL DEF Spec

\* However many requests accept the suggestions for one address or domain at
\* once (acceptPrompt), one person or company has it as people.email or
\* companies.domain; it may be another one's additional address besides.
THEOREM OneEntity == Spec => []OneEntityPerIdentifier
<1>1. SuggestInv => OneEntityPerIdentifier
  BY DEF SuggestInv
<1> QED BY <1>1, SuggestInvariant, PTL

\* No stored message is forgotten (suggestEntitiesFromMessage): its sender is
\* known or has had a suggestion, whatever fails and whatever is resolved.
THEOREM SendersAccountedFor == Spec => []SenderAccountedFor
<1>1. SuggestInv => SenderAccountedFor
  BY DEF SuggestInv
<1> QED BY <1>1, SuggestInvariant, PTL

-----------------------------------------------------------------------------
(* What is suppressed or open is suggested only if that came in between.   *)

Asked(q) == <<q.kind, q.target>>

\* What a unit of work will suggest, or is about to, is suppressed or open only
\* if that overtook it.
AskedInTime(t, old) ==
  /\ t.msg = None => t.suggest = <<>> /\ t.step # "exists"
  /\ \A i \in DOMAIN t.suggest :
       t.suggest[i].kind # "email_deal_link" /\ Asked(t.suggest[i]) \in suppressed \cup Opened
       => Asked(t.suggest[i]) \in old
  /\ LET s == Head(t.screen)
     IN  t.step = "exists" /\ <<Kind(s), s>> \in suppressed => <<Kind(s), s>> \in old

InTime == \A w \in Workers : AskedInTime(work[w], overtaken[w])

LEMMA InTimeInit == Init => InTime
BY DEF Init, InTime, AskedInTime, NoWork

\* What overtakes a unit of work that goes on to suggest the same is noted.
LEMMA NotedInTime ==
  ASSUME NEW v \in Workers, NEW aside, Note(aside), NEW t, NEW u, u = work'[v],
         AskedInTime(t, overtaken[v]), u.msg = None => u.suggest = <<>> /\ u.step # "exists",
         u.suggest = t.suggest \/ u.suggest = <<>>,
         u.step = "exists" => t.step = "exists" /\ u.screen = t.screen
  PROVE  AskedInTime(u, overtaken[v])'
<1>1. CASE u.msg = None
  BY <1>1 DEF AskedInTime
<1>2. CASE u.msg # None
  <2>1. /\ overtaken[v] \subseteq overtaken'[v]
        /\ suppressed' \subseteq suppressed \cup overtaken'[v]
        /\ Opened' \subseteq Opened \cup overtaken'[v]
    BY <1>2 DEF Note
  <2>2. ASSUME NEW i \in DOMAIN u.suggest, u.suggest[i].kind # "email_deal_link",
               Asked(u.suggest[i]) \in suppressed' \cup Opened'
        PROVE  Asked(u.suggest[i]) \in overtaken'[v]
    <3>1. u.suggest = t.suggest
      BY <2>2
    <3> QED BY <2>1, <2>2, <3>1 DEF AskedInTime
  <2>3. ASSUME u.step = "exists", NEW x, x = <<Kind(Head(u.screen)), Head(u.screen)>>,
               x \in suppressed'
        PROVE  x \in overtaken'[v]
    BY <2>1, <2>3 DEF AskedInTime
  <2> QED BY <1>2, <2>2, <2>3 DEF AskedInTime, Asked
<1> QED BY <1>1, <1>2

LEMMA OthersInTime ==
  ASSUME SuggestInv, InTime, NEW w \in Workers, NEW new, Becomes(w, new), NEW aside, Note(aside),
         AskedInTime(new, overtaken[w])'
  PROVE  InTime'
<1>1. work'[w] = new /\ \A v \in Workers \ {w} : work'[v] = work[v]
  BY DEF Becomes, SuggestInv, Types
<1>2. ASSUME NEW v \in Workers \ {w} PROVE AskedInTime(work[v], overtaken[v])'
  <2>1. PICK t : t = work[v]
    OBVIOUS
  <2>2. AskedInTime(t, overtaken[v]) /\ t = work'[v]
    BY <1>1, <2>1 DEF InTime
  <2>3. t.msg = None => t.suggest = <<>> /\ t.step # "exists"
    BY <2>2 DEF AskedInTime
  <2>4. AskedInTime(t, overtaken[v])'
    BY <2>2, <2>3, NotedInTime
  <2> QED BY <2>2, <2>4 DEF AskedInTime
<1>3. AskedInTime(work[w], overtaken[w])'
  BY <1>1 DEF AskedInTime
<1> QED BY <1>2, <1>3 DEF InTime

\* A step that suggests nothing new.
LEMMA QuietStep ==
  ASSUME SuggestInv, InTime, NEW w \in Workers, NEW new, Becomes(w, new), NEW aside, Note(aside),
         new.step # "exists",
         new.suggest = <<>> \/ (new.suggest = work[w].suggest /\ new.msg = work[w].msg)
  PROVE  InTime'
<1>1. PICK t : t = work[w]
  OBVIOUS
<1>2. AskedInTime(t, overtaken[w]) /\ new = work'[w]
  BY <1>1 DEF InTime, Becomes, SuggestInv, Types
<1>3. new.msg = None => new.suggest = <<>>
  BY <1>1, <1>2 DEF AskedInTime
<1>4. AskedInTime(new, overtaken[w])'
  BY <1>1, <1>2, <1>3, NotedInTime
<1> QED BY <1>4, OthersInTime

LEMMA SyncInTime ==
  ASSUME SuggestInv, InTime, NEW w \in Workers, Sync(w)
  PROVE  InTime'
<1> DEFINE t == work[w]
<1>1. t \in Work /\ Fits(t) /\ AskedInTime(t, overtaken[w])
  BY WorkInHand DEF InTime
<1>2. ASSUME t.step \in {"match", "deals", "screen", "exists"} PROVE t.msg # None
  BY <1>1, <1>2 DEF Fits, Shaped
<1>3. Note({})
  BY Zenon DEF Sync, UpsertEmailMessage, linkEmailToTimeline, suggestDealLinks, ScreenSender,
               SuggestSender
<1>4. t.msg # None /\ Becomes(w, t) => overtaken[w] \subseteq overtaken'[w]
  BY <1>3 DEF Note, Becomes
<1>5. ASSUME NEW new, Becomes(w, new), new.msg = t.msg, t.msg # None,
             UNCHANGED <<prompts, suppressed>>,
             \A i \in DOMAIN new.suggest :
               new.suggest[i].kind # "email_deal_link"
               /\ Asked(new.suggest[i]) \in suppressed \cup Opened
               => Asked(new.suggest[i]) \in overtaken[w],
             LET s == Head(new.screen)
             IN  new.step = "exists" /\ <<Kind(s), s>> \in suppressed => <<Kind(s), s>> \in overtaken[w]
      PROVE  InTime'
  <2>1. work'[w] = new
    BY <1>5 DEF Becomes, SuggestInv, Types
  <2>2. overtaken[w] \subseteq overtaken'[w]
    BY <1>3, <1>5, <2>1 DEF Note
  <2>3. Opened' = Opened
    BY <1>5 DEF Opened
  <2>4. AskedInTime(new, overtaken[w])'
    BY <1>5, <2>2, <2>3 DEF AskedInTime, Asked
  <2> QED BY <1>3, <1>5, <2>4, OthersInTime
<1>6. ASSUME NEW m \in Messages, UpsertEmailMessage(w, m) PROVE InTime'
  <2>1. PICK new : new = [NoWork EXCEPT !.step = "match", !.msg = m, !.screen = Screening(m)]
    OBVIOUS
  <2>2. new.step = "match" /\ new.suggest = <<>>
    BY <2>1 DEF NoWork
  <2> QED BY <1>3, <1>6, <2>1, <2>2, QuietStep DEF UpsertEmailMessage
<1>7. CASE linkEmailToTimeline(w)
  <2>1. PICK attach : \/ Becomes(w, [t EXCEPT !.step = "screen"])
                      \/ Becomes(w, [t EXCEPT !.step = "deals", !.attach = attach])
    BY <1>7, Zenon DEF linkEmailToTimeline
  <2>2. PICK new : /\ Becomes(w, new)
                   /\ \/ new = [t EXCEPT !.step = "screen"]
                      \/ new = [t EXCEPT !.step = "deals", !.attach = attach]
    BY <2>1, Zenon
  <2>3. new.step # "exists" /\ new.suggest = t.suggest /\ new.msg = t.msg
    BY <1>1, <2>2 DEF Work
  <2> QED BY <1>3, <2>2, <2>3, QuietStep
<1>8. CASE suggestDealLinks(w)
  <2> DEFINE id == (CHOOSE x \in t.attach : TRUE)[2]
             deals == {d \in Deals : /\ \E e \in activities[id].links : <<d, e>> \in DealPeople
                                     /\ ~OpenDealPrompt(d)}
             asked == SetToSeq({SuggestDeal(d, id) : d \in deals})
  <2>1. /\ t.step = "deals" /\ Becomes(w, [t EXCEPT !.step = "screen", !.suggest = asked])
        /\ UNCHANGED <<prompts, suppressed>>
    BY <1>8, Zenon DEF suggestDealLinks
  <2>2. id \in Nat
    BY <1>1, <2>1 DEF Fits, Shaped, Work
  <2>3. \A i \in DOMAIN asked : asked[i].kind = "email_deal_link"
    <3>1. deals \in SUBSET Deals /\ id \in Nat
      BY <2>2
    <3> HIDE DEF deals, id
    <3>2. \A i \in DOMAIN asked : \E d \in deals : asked[i] = SuggestDeal(d, id)
      BY <3>1, DealSuggestions
    <3>3. \A d \in deals : SuggestDeal(d, id).kind = "email_deal_link"
      BY DEF SuggestDeal
    <3> HIDE DEF asked
    <3> QED BY <3>2, <3>3
  <2> HIDE DEF asked
  <2>4. PICK new : new = [t EXCEPT !.step = "screen", !.suggest = asked]
    OBVIOUS
  <2>5. new.step = "screen" /\ new.suggest = asked /\ new.msg = t.msg
    BY <1>1, <2>4 DEF Work
  <2> QED BY <1>2, <1>5, <2>1, <2>3, <2>4, <2>5
<1>9. CASE ScreenSender(w)
  <2>1. CASE t.screen # <<>> /\ Owners(Head(t.screen)) = {}
             /\ <<Kind(Head(t.screen)), Head(t.screen)>> \notin suppressed
    <3>1. PICK new : new = [t EXCEPT !.step = "exists"]
      OBVIOUS
    <3>2. Becomes(w, new) /\ UNCHANGED <<prompts, suppressed>> /\ t.step = "screen"
      BY <1>9, <2>1, <3>1 DEF ScreenSender
    <3>3. new.step = "exists" /\ new.suggest = t.suggest /\ new.screen = t.screen
          /\ new.msg = t.msg
      BY <1>1, <3>1 DEF Work
    <3>4. \A i \in DOMAIN new.suggest :
            new.suggest[i].kind # "email_deal_link"
            /\ Asked(new.suggest[i]) \in suppressed \cup Opened
            => Asked(new.suggest[i]) \in overtaken[w]
      BY <1>1, <3>3 DEF AskedInTime
    <3> QED BY <1>2, <1>5, <2>1, <3>2, <3>3, <3>4
  <2>2. CASE ~(t.screen # <<>> /\ Owners(Head(t.screen)) = {}
               /\ <<Kind(Head(t.screen)), Head(t.screen)>> \notin suppressed)
    <3>1. /\ t.step = "screen"
          /\ \/ Becomes(w, [t EXCEPT !.step = "commit"])
             \/ Becomes(w, [t EXCEPT !.screen = Tail(t.screen)])
      BY <1>9, <2>2, Zenon DEF ScreenSender
    <3>2. PICK new : /\ Becomes(w, new)
                     /\ \/ new = [t EXCEPT !.step = "commit"]
                        \/ new = [t EXCEPT !.screen = Tail(t.screen)]
      BY <3>1, Zenon
    <3>3. new.step \in {"screen", "commit"} /\ new.suggest = t.suggest /\ new.msg = t.msg
      BY <1>1, <3>1, <3>2 DEF Work
    <3> QED BY <1>3, <3>2, <3>3, QuietStep
  <2> QED BY <2>1, <2>2
<1>10. CASE SuggestSender(w)
  <2> DEFINE s == Head(t.screen)
  <2>1. t.step = "exists" /\ UNCHANGED <<prompts, suppressed>>
    BY <1>10 DEF SuggestSender
  <2>2. PICK asked :
          /\ asked = IF OpenPrompt(Kind(s), s) THEN t.suggest ELSE Append(t.suggest, Suggest(s))
          /\ Becomes(w, [t EXCEPT !.step = "screen", !.screen = Tail(t.screen), !.suggest = asked])
    <3>1. Becomes(w, [t EXCEPT !.step = "screen", !.screen = Tail(t.screen),
                               !.suggest = IF OpenPrompt(Kind(s), s) THEN t.suggest
                                           ELSE Append(t.suggest, Suggest(s))])
      BY <1>10, Zenon DEF SuggestSender
    <3> QED BY <3>1, Zenon
  <2>3. PICK new : new = [t EXCEPT !.step = "screen", !.screen = Tail(t.screen), !.suggest = asked]
    OBVIOUS
  <2>4. new.step = "screen" /\ new.suggest = asked /\ new.msg = t.msg
    BY <1>1, <2>3 DEF Work
  <2>5. CASE OpenPrompt(Kind(s), s)
    BY <1>3, <2>2, <2>3, <2>4, <2>5, QuietStep
  <2>6. CASE ~OpenPrompt(Kind(s), s)
    <3>1. t.suggest \in Seq(Prompt) /\ Suggest(s) \in Prompt
      BY <1>1, <2>1, HeadTail DEF Work, Fits, Shaped, Suggest, Prompt, Kind
    <3>2. \A i \in DOMAIN asked : asked[i] = Suggest(s) \/
                                  (i \in DOMAIN t.suggest /\ asked[i] = t.suggest[i])
      BY <2>2, <2>6, <3>1, AppendSuggestion
    <3>3. Asked(Suggest(s)) = <<Kind(s), s>> /\ Asked(Suggest(s)) \notin Opened
      BY <2>6 DEF Asked, Suggest, Opened, OpenPrompt
    <3>4. Asked(Suggest(s)) \in suppressed => Asked(Suggest(s)) \in overtaken[w]
      BY <1>1, <2>1, <3>3 DEF AskedInTime
    <3>5. \A i \in DOMAIN asked :
            asked[i].kind # "email_deal_link" /\ Asked(asked[i]) \in suppressed \cup Opened
            => Asked(asked[i]) \in overtaken[w]
      BY <1>1, <3>2, <3>3, <3>4 DEF AskedInTime
    <3> QED BY <1>2, <1>5, <2>1, <2>2, <2>3, <2>4, <3>5
  <2> QED BY <2>5, <2>6
<1> QED BY <1>6, <1>7, <1>8, <1>9, <1>10 DEF Sync

LEMMA ResolveInTime ==
  ASSUME SuggestInv, InTime, NEW w \in Workers, Resolve(w)
  PROVE  InTime'
<1> DEFINE t == work[w]
<1>1. t \in Work
  BY WorkInHand
<1>2. NoWork.suggest = <<>> /\ NoWork.step = "idle"
  BY DEF NoWork
<1>3. PICK aside : Note(aside)
  BY Zenon DEF Resolve, AcceptPrompt, CreateEntity, LinkSuggestionToPerson, ListHistory,
               LinkHistoricalEmail, LinkSuggestionToCompany, ResolvePrompt, SuppressPrompt,
               UnsuppressPrompt, ResolveSuppressed
<1>4. ASSUME NEW new, Becomes(w, new), new.step # "exists",
             new.suggest = <<>> \/ (new.suggest = t.suggest /\ new.msg = t.msg)
      PROVE  InTime'
  BY <1>3, <1>4, QuietStep
<1>5. ASSUME NEW p \in DOMAIN prompts, AcceptPrompt(w, p) PROVE InTime'
  <2>1. PICK step \in {"create", "commit"} : \E link :
          \/ Becomes(w, [NoWork EXCEPT !.step = step, !.prompt = p, !.link = link])
          \/ Becomes(w, [NoWork EXCEPT !.step = step, !.prompt = p])
    BY <1>5, Zenon DEF AcceptPrompt
  <2>2. PICK new, link :
                   /\ Becomes(w, new)
                   /\ \/ new = [NoWork EXCEPT !.step = step, !.prompt = p, !.link = link]
                      \/ new = [NoWork EXCEPT !.step = step, !.prompt = p]
    BY <2>1, Zenon
  <2>3. new.step = step /\ new.suggest = <<>>
    BY <2>2 DEF NoWork
  <2> QED BY <1>4, <2>2, <2>3
<1>6. ASSUME NEW e \in Entities, CreateEntity(w, e) PROVE InTime'
  <2>1. CASE Becomes(w, NoWork)
    BY <1>2, <1>4, <2>1
  <2>2. CASE ~Becomes(w, NoWork)
    <3>1. PICK step \in {"list", "commit"} :
            \E target : Becomes(w, [t EXCEPT !.entity = e, !.create = target, !.step = step])
      BY <1>6, <2>2, Zenon DEF CreateEntity
    <3>2. PICK target : Becomes(w, [t EXCEPT !.entity = e, !.create = target, !.step = step])
      BY <3>1
    <3>3. PICK new : new = [t EXCEPT !.entity = e, !.create = target, !.step = step]
      OBVIOUS
    <3>4. new.step = step /\ new.suggest = t.suggest /\ new.msg = t.msg
      BY <1>1, <3>3 DEF Work
    <3> QED BY <1>4, <3>2, <3>3, <3>4
  <2> QED BY <2>1, <2>2
<1>7. ASSUME NEW p \in DOMAIN prompts, NEW e \in Entities, LinkSuggestionToPerson(w, p, e)
      PROVE  InTime'
  <2>1. PICK new : new = [NoWork EXCEPT !.step = "list", !.prompt = p, !.entity = e]
    OBVIOUS
  <2>2. new.step = "list" /\ new.suggest = <<>>
    BY <2>1 DEF NoWork
  <2> QED BY <1>4, <1>7, <2>1, <2>2 DEF LinkSuggestionToPerson
<1>8. CASE ListHistory(w)
  <2>1. PICK found : Becomes(w, [t EXCEPT !.step = "history", !.history = found])
    BY <1>8, Zenon DEF ListHistory
  <2>2. PICK new : new = [t EXCEPT !.step = "history", !.history = found]
    OBVIOUS
  <2>3. new.step = "history" /\ new.suggest = t.suggest /\ new.msg = t.msg
    BY <1>1, <2>2 DEF Work
  <2> QED BY <1>4, <2>1, <2>2, <2>3
<1>9. CASE LinkHistoricalEmail(w)
  <2>1. t.step = "history"
    BY <1>9 DEF LinkHistoricalEmail
  <2>2. PICK history, link, attach :
          \/ Becomes(w, NoWork)
          \/ Becomes(w, [t EXCEPT !.step = "commit"])
          \/ Becomes(w, [t EXCEPT !.history = history, !.link = link])
          \/ Becomes(w, [t EXCEPT !.history = history, !.attach = attach])
    BY <1>9, Zenon DEF LinkHistoricalEmail
  <2>3. PICK new : /\ Becomes(w, new)
                   /\ \/ new = NoWork
                      \/ new = [t EXCEPT !.step = "commit"]
                      \/ new = [t EXCEPT !.history = history, !.link = link]
                      \/ new = [t EXCEPT !.history = history, !.attach = attach]
    BY <2>2, Zenon
  <2>4. CASE new = NoWork
    BY <1>2, <1>4, <2>3, <2>4
  <2>5. CASE new # NoWork
    <3>1. new.step \in {"history", "commit"} /\ new.suggest = t.suggest /\ new.msg = t.msg
      BY <1>1, <2>1, <2>3, <2>5 DEF Work
    <3> QED BY <1>4, <2>3, <3>1
  <2> QED BY <2>4, <2>5
<1>10. ASSUME NEW p \in DOMAIN prompts, NEW e \in Entities, LinkSuggestionToCompany(w, p, e)
       PROVE  InTime'
  <2>1. Becomes(w, NoWork)
    BY <1>10, Stays DEF LinkSuggestionToCompany
  <2> QED BY <1>2, <1>4, <2>1
<1>11. ASSUME NEW p \in DOMAIN prompts, NEW status \in {"accepted", "dismissed", "open"},
              ResolvePrompt(w, p, status)
       PROVE  InTime'
  <2>1. Becomes(w, NoWork)
    BY <1>11, Stays DEF ResolvePrompt
  <2> QED BY <1>2, <1>4, <2>1
<1>12. CASE ResolveSuppressed(w)
  BY <1>2, <1>4, <1>12 DEF ResolveSuppressed
<1>13. ASSUME NEW p \in DOMAIN prompts, SuppressPrompt(w, p) \/ UnsuppressPrompt(w, p)
       PROVE  InTime'
  <2>1. PICK step \in {"dismissed", "open"} : Becomes(w, [NoWork EXCEPT !.step = step, !.prompt = p])
    BY <1>13, Zenon DEF SuppressPrompt, UnsuppressPrompt
  <2>2. PICK new : new = [NoWork EXCEPT !.step = step, !.prompt = p]
    OBVIOUS
  <2>3. new.step = step /\ new.suggest = <<>>
    BY <2>2 DEF NoWork
  <2> QED BY <1>4, <2>1, <2>2, <2>3
<1> QED BY <1>5, <1>6, <1>7, <1>8, <1>9, <1>10, <1>11, <1>12, <1>13 DEF Resolve

\* The suggestions a commit adds.
LEMMA NewSuggestions ==
  ASSUME SuggestInv, NEW w \in Workers, Commit(w)
  PROVE  /\ DOMAIN prompts \subseteq DOMAIN prompts'
         /\ \A p \in DOMAIN prompts : /\ prompts'[p].kind = prompts[p].kind
                                      /\ prompts'[p].target = prompts[p].target
         /\ \A p \in DOMAIN prompts' \ DOMAIN prompts :
              \E i \in DOMAIN work[w].suggest : prompts'[p] = work[w].suggest[i]
<1> DEFINE t == work[w]
<1>1. prompts \in Seq(Prompt) /\ t.suggest \in Seq(Prompt)
  BY WorkInHand DEF SuggestInv, Types, Work
<1>2. prompts' = Committed(prompts, t.prompt, t.suggest)
  BY DEF Commit, Committed
<1>3. /\ Len(prompts) \in Nat /\ DOMAIN prompts = 1..Len(prompts)
      /\ Len(t.suggest) \in Nat /\ DOMAIN t.suggest = 1..Len(t.suggest)
  BY <1>1, LenProperties
<1>4. /\ DOMAIN prompts' = 1..(Len(prompts) + Len(t.suggest))
      /\ \A p \in DOMAIN prompts : /\ prompts'[p].kind = prompts[p].kind
                                   /\ prompts'[p].target = prompts[p].target
      /\ \A i \in DOMAIN t.suggest : prompts'[Len(prompts) + i] = t.suggest[i]
  BY <1>1, <1>2, CommittedPrompts
<1>5. ASSUME NEW p \in DOMAIN prompts' \ DOMAIN prompts
      PROVE  \E i \in DOMAIN t.suggest : prompts'[p] = t.suggest[i]
  <2>1. /\ p \in Nat /\ p - Len(prompts) \in DOMAIN t.suggest
        /\ Len(prompts) + (p - Len(prompts)) = p
    BY <1>3, <1>4
  <2> QED BY <1>4, <2>1
<1> QED BY <1>3, <1>4, <1>5

\* Suggestions are made by a commit only.
LEMMA OnlyCommitSuggests ==
  ASSUME SuggestInv, Next, DOMAIN prompts' # DOMAIN prompts
  PROVE  \E w \in Workers : Commit(w)
<1>1. \A w \in Workers : ~Sync(w)
  BY Zenon DEF Sync, UpsertEmailMessage, linkEmailToTimeline, suggestDealLinks, ScreenSender,
               SuggestSender
<1>2. ASSUME NEW p, NEW status, prompts' = [prompts EXCEPT ![p].status = status]
      PROVE  DOMAIN prompts' = DOMAIN prompts
  BY <1>2
<1>3. \A w \in Workers : ~Resolve(w)
  BY <1>2, Zenon DEF Resolve, AcceptPrompt, CreateEntity, LinkSuggestionToPerson, ListHistory,
                     LinkHistoricalEmail, LinkSuggestionToCompany, ResolvePrompt, SuppressPrompt,
                     UnsuppressPrompt, ResolveSuppressed
<1>4. \A w \in Workers : ~Rollback(w)
  BY DEF Rollback
<1> QED BY <1>1, <1>3, <1>4 DEF Next

LEMMA InTimeNext ==
  ASSUME SuggestInv, InTime, [Next]_vars
  PROVE  InTime'
<1>1. CASE UNCHANGED vars
  BY <1>1 DEF vars, InTime, AskedInTime, Opened
<1>2. NoWork.suggest = <<>> /\ NoWork.step # "exists"
  BY DEF NoWork
<1>3. ASSUME NEW w \in Workers, Rollback(w) \/ Commit(w) PROVE InTime'
  <2>1. Becomes(w, NoWork) /\ \E aside : Note(aside)
    BY <1>3, Zenon DEF Rollback, Commit
  <2> QED BY <1>2, <2>1, QuietStep
<1> QED BY <1>1, <1>3, SyncInTime, ResolveInTime DEF Next

\* A unit of work suggests what it had in hand to suggest.
LEMMA CommittedSuggestions ==
  ASSUME SuggestInv, InTime, Next, NEW w \in Workers, NEW p \in DOMAIN prompts',
         CommittedBy(w, p), prompts'[p].kind # "email_deal_link",
         Asked(prompts'[p]) \in suppressed \cup Opened
  PROVE  Asked(prompts'[p]) \in overtaken[w]
<1>1. PICK v \in Workers : Commit(v)
  BY OnlyCommitSuggests DEF CommittedBy
<1>2. v = w
  <2>1. work'[w] # work[w]
    BY DEF CommittedBy, NoWork
  <2> QED BY <1>1, <2>1 DEF Commit, Becomes, SuggestInv, Types
<1>3. PICK i \in DOMAIN work[w].suggest : prompts'[p] = work[w].suggest[i]
  BY <1>1, <1>2, NewSuggestions DEF CommittedBy
<1>4. PICK q : q = prompts'[p]
  OBVIOUS
<1>5. q = work[w].suggest[i]
  BY <1>3, <1>4
<1>6. Asked(q) \in overtaken[w]
  BY <1>4, <1>5 DEF InTime, AskedInTime
<1> QED BY <1>4, <1>6

\* "Never ask again" is kept: what SuppressPrompt suppressed is suggested only by
\* a sync whose message was in hand by then (suggestEntitiesFromMessage).
THEOREM NeverAskedAgain == Spec => NeverAskAgain
<1>1. SuggestInv /\ InTime /\ [Next]_vars
      => [\A w \in Workers, p \in DOMAIN prompts' :
            LET asked == <<prompts'[p].kind, prompts'[p].target>>
            IN  /\ CommittedBy(w, p)
                /\ asked[1] # "email_deal_link"
                /\ asked \in suppressed
                => asked \in overtaken[w]]_vars
  BY CommittedSuggestions DEF Asked
<1>2. SuggestInv /\ InTime /\ [Next]_vars => InTime'
  BY InTimeNext
<1> QED BY <1>1, <1>2, SuggestInvariant, InTimeInit, PTL DEF Spec, NeverAskAgain

\* A second open suggestion for one address or domain comes only of a sync whose
\* message was in hand before the first (AIPromptExists before CreateAIPrompt).
THEOREM OneOpen == Spec => OneOpenSuggestion
<1>1. SuggestInv /\ InTime /\ [Next]_vars
      => [\A w \in Workers, p \in DOMAIN prompts' :
            LET asked == <<prompts'[p].kind, prompts'[p].target>>
            IN  /\ CommittedBy(w, p)
                /\ asked[1] # "email_deal_link"
                /\ asked \in Opened
                => asked \in overtaken[w]]_vars
  BY CommittedSuggestions DEF Asked
<1>2. SuggestInv /\ InTime /\ [Next]_vars => InTime'
  BY InTimeNext
<1> QED BY <1>1, <1>2, SuggestInvariant, InTimeInit, PTL DEF Spec, OneOpenSuggestion

-----------------------------------------------------------------------------
(* Mail that nothing has overlooked is on the timeline.                    *)

OnTimeline(m) ==
  /\ activityOf[m] \in DOMAIN activities
  /\ activities[activityOf[m]].links \cap Owners(Sender[m]) # {}

\* A unit of work gives an address that was suggested to somebody.
Gives(t, a) == t.entity # None /\ prompts[t.prompt].target = a

\* A message it has listed is linked, about to be, or still on the list.
Linked(t, m) ==
  \/ <<m, activityOf[m]>> \in t.history
  \/ activityOf[m] # 0 /\ <<activityOf[m], t.entity>> \in t.link
  \/ /\ activityOf[m] = 0
     /\ \E id \in DOMAIN activities : <<m, id>> \in t.attach /\ t.entity \in activities[id].links

\* Whoever gets an address gets the mail sent from it.
LinksHistory(t) ==
  t.entity # None =>
    /\ t.step \in {"list", "history", "commit"} /\ t.msg = None /\ t.prompt \in DOMAIN prompts
    /\ t.create \in {None, prompts[t.prompt].target}
    /\ t.create = None => /\ prompts[t.prompt].target \in Addresses
                         /\ t.entity \in Owners(prompts[t.prompt].target)
    /\ prompts[t.prompt].target \in Addresses /\ t.step # "list" =>
         \A m \in stored \ overlooked : Sender[m] = prompts[t.prompt].target => Linked(t, m)

\* The message in hand is on the timeline of its sender, if anybody is.
LinksMessage(t) ==
  t.msg # None /\ t.msg \notin overlooked =>
    /\ t.msg \notin stored
    /\ t.step # "match" /\ Sender[t.msg] # None /\ Owners(Sender[t.msg]) # {} =>
         \E id \in DOMAIN activities : /\ <<t.msg, id>> \in t.attach
                                       /\ activities[id].links \cap Owners(Sender[t.msg]) # {}

\* A message has one activity, in the rows or among what will be committed.
OneActivity(t) ==
  /\ t.step # "history" => t.history = {}
  /\ \A h \in t.history :
       /\ h[1] \in stored /\ About(t, h[1])
       /\ h[1] \notin overlooked => h[2] = activityOf[h[1]]
       /\ \A g \in t.history : g[1] = h[1] => g = h
       /\ \A x \in t.attach : x[1] # h[1]
  /\ \A x \in t.attach :
       /\ x[1] \in stored \cup {t.msg} /\ About(t, x[1])
       /\ x[2] \in DOMAIN activities
       /\ \A y \in t.attach : x[1] = y[1] => x = y

Places(t) == LinksHistory(t) /\ LinksMessage(t) /\ OneActivity(t)

ActivitiesKnown ==
  \A m \in Messages : /\ activityOf[m] \in {0} \cup DOMAIN activities
                      /\ m \notin stored => activityOf[m] = 0

MailPlaced ==
  \A m \in stored \ overlooked : Sender[m] # None /\ Owners(Sender[m]) # {} =>
    OnTimeline(m) \/ \E w \in Workers : Gives(work[w], Sender[m]) /\ work[w].create = None

\* No two units of work are about a message that is not overlooked.
Alone ==
  \A v, w \in Workers : v # w =>
    \A m \in Messages : About(work[v], m) /\ About(work[w], m) => m \in overlooked

MailInv == ActivitiesKnown /\ MailPlaced /\ Alone /\ \A w \in Workers : Places(work[w])

LEMMA NoWorkPlaces ==
  /\ Places(NoWork) /\ Places(NoWork)'
  /\ \A m \in Messages : ~About(NoWork, m)
  /\ \A a : ~Gives(NoWork, a) /\ ~Gives(NoWork, a)'
BY SuggestionsAssumption
   DEF Places, LinksHistory, LinksMessage, OneActivity, NoWork, About, Gives

LEMMA MailInit == Init => MailInv
<1> SUFFICES ASSUME Init PROVE MailInv
  OBVIOUS
<1>1. ActivitiesKnown /\ MailPlaced
  BY DEF Init, ActivitiesKnown, MailPlaced
<1>2. Alone
  BY NoWorkPlaces DEF Init, Alone
<1> QED BY <1>1, <1>2, NoWorkPlaces DEF MailInv, Init

LEMMA Noted ==
  ASSUME NEW aside, Note(aside)
  PROVE  Alone' /\ overlooked \subseteq overlooked' /\ aside \subseteq overlooked'
BY DEF Alone, Note

\* What a unit of work is about does not change under it.
LEMMA AboutStays ==
  ASSUME DOMAIN prompts \subseteq DOMAIN prompts',
         \A p \in DOMAIN prompts : prompts'[p].target = prompts[p].target,
         NEW t, t.step = "create" \/ t.entity # None => t.prompt \in DOMAIN prompts
  PROVE  /\ \A m : About(t, m)' <=> About(t, m)
         /\ \A a : Gives(t, a)' <=> Gives(t, a)
BY DEF About, Gives

\* A step of another unit of work, which adds rows, and changes those of no
\* message that this one is about.
LEMMA OthersPlaces ==
  ASSUME NEW t, t.msg \in Messages \cup {None}, Places(t), stored' \subseteq Messages,
         t.step = "create" \/ t.entity # None => t.prompt \in DOMAIN prompts,
         stored \subseteq stored', overlooked \subseteq overlooked',
         DOMAIN activities \subseteq DOMAIN activities',
         \A a \in DOMAIN activities : activities[a].links \subseteq activities'[a].links,
         DOMAIN prompts \subseteq DOMAIN prompts',
         \A p \in DOMAIN prompts : prompts'[p].target = prompts[p].target,
         \A a \in Addresses : Owners(a) \subseteq Owners(a)',
         \A m \in Messages \ overlooked' : About(t, m) =>
           /\ activityOf'[m] = activityOf[m]
           /\ m \in stored' => m \in stored
           /\ Sender[m] # None => Owners(Sender[m])' = Owners(Sender[m])
  PROVE  Places(t)'
<1>1. \A m : About(t, m)' <=> About(t, m)
  BY AboutStays
<1>2. ASSUME NEW m \in stored \ overlooked', About(t, m), Linked(t, m) PROVE Linked(t, m)'
  <2>1. activityOf'[m] = activityOf[m]
    BY <1>2
  <2> QED BY <1>2, <2>1 DEF Linked
<1>3. LinksHistory(t)'
  <2> SUFFICES ASSUME t.entity # None PROVE LinksHistory(t)'
    BY DEF LinksHistory
  <2>1. t.prompt \in DOMAIN prompts /\ prompts'[t.prompt].target = prompts[t.prompt].target
    OBVIOUS
  <2>2. ASSUME prompts[t.prompt].target \in Addresses, t.step # "list",
               NEW m \in stored' \ overlooked', Sender[m] = prompts[t.prompt].target
        PROVE  Linked(t, m)'
    <3>1. About(t, m)
      BY <2>2, SuggestionsAssumption DEF About, relevantEmails
    <3>2. m \in stored \ overlooked
      BY <2>2, <3>1
    <3> QED BY <1>2, <2>2, <3>1, <3>2 DEF Places, LinksHistory
  <2> QED BY <2>1, <2>2 DEF Places, LinksHistory
<1>4. LinksMessage(t)'
  <2> SUFFICES ASSUME t.msg # None, t.msg \notin overlooked' PROVE LinksMessage(t)'
    BY DEF LinksMessage
  <2>1. About(t, t.msg) /\ t.msg \in Messages
    BY DEF About
  <2>2. t.msg \notin stored' /\ (Sender[t.msg] # None => Owners(Sender[t.msg])' = Owners(Sender[t.msg]))
    BY <2>1 DEF Places, LinksMessage
  <2> QED BY <2>2 DEF Places, LinksMessage
<1>5. OneActivity(t)'
  <2>1. ASSUME NEW h \in t.history, h[1] \notin overlooked' PROVE h[2] = activityOf'[h[1]]
    BY <2>1 DEF Places, OneActivity
  <2> QED BY <1>1, <2>1 DEF Places, OneActivity
<1> QED BY <1>3, <1>4, <1>5 DEF Places

\* A unit of work about a suggestion knows it.
LEMMA KnowsPrompt ==
  ASSUME SuggestInv, MailInv, NEW w \in Workers
  PROVE  work[w].step = "create" \/ work[w].entity # None => work[w].prompt \in DOMAIN prompts
BY WorkInHand DEF Fits, Shaped, MailInv, Places, LinksHistory

LEMMA MailStep ==
  ASSUME SuggestInv, NEW w \in Workers, NEW new, Becomes(w, new), NEW aside, Note(aside),
         ActivitiesKnown', MailPlaced', Places(new)', \A v \in Workers \ {w} : Places(work[v])'
  PROVE  MailInv'
<1>1. work'[w] = new
  BY DEF Becomes, SuggestInv, Types
<1>2. Places(work[w])'
  <2>1. LinksHistory(work[w])'
    BY <1>1 DEF Places, LinksHistory, Linked
  <2>2. LinksMessage(work[w])'
    BY <1>1 DEF Places, LinksMessage
  <2>3. OneActivity(work[w])'
    BY <1>1 DEF Places, OneActivity, About
  <2> QED BY <2>1, <2>2, <2>3 DEF Places
<1>3. Alone'
  BY Noted
<1> QED BY <1>2, <1>3 DEF MailInv

\* Nothing is committed but activities and what becomes of suggestions.
Extends ==
  /\ UNCHANGED <<stored, activityOf, primary, extra>>
  /\ DOMAIN activities \subseteq DOMAIN activities'
  /\ \A a \in DOMAIN activities : activities'[a] = activities[a]
  /\ DOMAIN prompts' = DOMAIN prompts
  /\ \A p \in DOMAIN prompts : prompts'[p].target = prompts[p].target

LEMMA ExtendsKeeps ==
  ASSUME Extends, NEW t, t.step = "create" \/ t.entity # None => t.prompt \in DOMAIN prompts,
         overlooked \subseteq overlooked'
  PROVE  /\ \A a : Owners(a)' = Owners(a)
         /\ \A m : OnTimeline(m) => OnTimeline(m)'
         /\ \A m : Linked(t, m) => Linked(t, m)'
         /\ LinksMessage(t) => LinksMessage(t)'
         /\ OneActivity(t) => OneActivity(t)'
         /\ LinksHistory(t) => LinksHistory(t)'
         /\ ActivitiesKnown => ActivitiesKnown'
<1>1. \A a : Owners(a)' = Owners(a)
  BY DEF Extends, Owners
<1>2. \A m : OnTimeline(m) => OnTimeline(m)'
  BY <1>1 DEF Extends, OnTimeline
<1>3. \A m : Linked(t, m) => Linked(t, m)'
  BY DEF Extends, Linked
<1>4. LinksMessage(t) => LinksMessage(t)'
  BY <1>1 DEF Extends, LinksMessage
<1>5. OneActivity(t) => OneActivity(t)'
  <2>1. \A m : About(t, m)' <=> About(t, m)
    BY AboutStays DEF Extends
  <2> QED BY <2>1 DEF Extends, OneActivity
<1>6. LinksHistory(t) => LinksHistory(t)'
  BY <1>1, <1>3 DEF Extends, LinksHistory
<1>7. ActivitiesKnown => ActivitiesKnown'
  BY DEF Extends, ActivitiesKnown
<1> QED BY <1>1, <1>2, <1>3, <1>4, <1>5, <1>6, <1>7

LEMMA MailFrame ==
  ASSUME SuggestInv, MailInv, NEW w \in Workers, NEW new, Becomes(w, new),
         NEW aside, Note(aside), Extends, Places(new)',
         \A m \in stored \ overlooked' :
           /\ Sender[m] # None /\ Gives(work[w], Sender[m]) /\ work[w].create = None
           => Gives(new, Sender[m])' /\ new.create = None
  PROVE  MailInv'
<1>1. overlooked \subseteq overlooked'
  BY Noted
<1>2. /\ ActivitiesKnown' /\ \A a : Owners(a)' = Owners(a)
      /\ \A m : OnTimeline(m) => OnTimeline(m)'
  <2>1. NoWork.step # "create" /\ NoWork.entity = None
    BY DEF NoWork
  <2> QED BY <1>1, <2>1, ExtendsKeeps DEF MailInv
<1>3. work'[w] = new /\ \A v \in Workers \ {w} : work'[v] = work[v]
  BY DEF Becomes, SuggestInv, Types
<1>4. ASSUME NEW m \in stored' \ overlooked', Sender[m] # None, Owners(Sender[m])' # {}
      PROVE  OnTimeline(m)' \/ \E v \in Workers : Gives(work[v], Sender[m])' /\ work'[v].create = None
  <2>1. m \in stored \ overlooked /\ Owners(Sender[m]) # {}
    BY <1>1, <1>2, <1>4 DEF Extends
  <2>2. CASE OnTimeline(m)
    BY <1>2, <2>2
  <2>3. ASSUME NEW v \in Workers, Gives(work[v], Sender[m]), work[v].create = None
        PROVE  Gives(work[v], Sender[m])' /\ work'[v].create = None
    <3>1. CASE v = w
      <4>1. Gives(new, Sender[m])' /\ new.create = None
        BY <1>4, <2>1, <2>3, <3>1
      <4> QED BY <1>3, <3>1, <4>1 DEF Gives
    <3>2. CASE v # w
      <4>1. work[v].prompt \in DOMAIN prompts
        BY <2>3, KnowsPrompt DEF Gives
      <4> QED BY <1>3, <2>3, <3>2, <4>1 DEF Gives, Extends
    <3> QED BY <3>1, <3>2
  <2>4. OnTimeline(m) \/ \E v \in Workers : Gives(work[v], Sender[m]) /\ work[v].create = None
    BY <1>4, <2>1 DEF MailInv, MailPlaced
  <2> QED BY <2>2, <2>3, <2>4
<1>5. MailPlaced'
  BY <1>4 DEF MailPlaced
<1>6. ASSUME NEW v \in Workers \ {w} PROVE Places(work[v])'
  <2>1. PICK t : t = work[v]
    OBVIOUS
  <2>2. Places(t) /\ (t.step = "create" \/ t.entity # None => t.prompt \in DOMAIN prompts)
    BY <2>1, KnowsPrompt DEF MailInv
  <2>3. Places(t)'
    BY <1>1, <2>2, ExtendsKeeps DEF Places
  <2>4. work'[v] = t
    BY <1>3, <2>1
  <2> QED BY <2>3, <2>4 DEF Places, LinksHistory, Linked, LinksMessage, OneActivity, About
<1> QED BY <1>2, <1>5, <1>6, MailStep

LEMMA ActivitiesNumbered ==
  ASSUME SuggestInv
  PROVE  \A a \in DOMAIN activities : a # 0
BY LenProperties DEF SuggestInv, Types

LEMMA ActivitiesExtend ==
  ASSUME SuggestInv, activities' = activities \/ \E row : activities' = Append(activities, row)
  PROVE  /\ DOMAIN activities \subseteq DOMAIN activities'
         /\ \A a \in DOMAIN activities : activities'[a] = activities[a]
         /\ \A row : activities' = Append(activities, row) =>
              /\ Len(activities) + 1 \in DOMAIN activities'
              /\ activities'[Len(activities) + 1] = row
         /\ \A a \in DOMAIN activities : a # 0
<1>1. activities \in Seq(Activity) /\ Len(activities) \in Nat /\ DOMAIN activities = 1..Len(activities)
  BY LenProperties DEF SuggestInv, Types
<1>2. ASSUME NEW row, activities' = Append(activities, row)
      PROVE  /\ DOMAIN activities' = 1..(Len(activities) + 1)
             /\ \A a \in DOMAIN activities : activities'[a] = activities[a]
             /\ activities'[Len(activities) + 1] = row
  <2>1. activities \in Seq(Activity \cup {row})
    BY <1>1, SeqMonotonic
  <2>2. /\ Len(Append(activities, row)) = Len(activities) + 1
        /\ Append(activities, row) \in Seq(Activity \cup {row})
        /\ \A i \in 1..Len(activities) : Append(activities, row)[i] = activities[i]
        /\ Append(activities, row)[Len(activities) + 1] = row
    BY <2>1, AppendProperties
  <2>3. DOMAIN Append(activities, row) = 1..(Len(activities) + 1)
    BY <2>2, LenProperties
  <2> QED BY <1>1, <1>2, <2>2, <2>3
<1> QED BY <1>1, <1>2

\* A step of the sync of a message.
LEMMA MailSyncStep ==
  ASSUME SuggestInv, MailInv, NEW w \in Workers, work[w].msg \in Messages,
         NEW new, Becomes(w, new), Note({}), Extends,
         new.msg = work[w].msg, new.entity = work[w].entity, new.create = work[w].create,
         new.history = work[w].history, new.step \in SyncSteps,
         \/ new.attach = work[w].attach
         \/ \E id \in DOMAIN activities' : new.attach = {<<work[w].msg, id>>},
         LinksMessage(new)'
  PROVE  MailInv'
<1>1. Places(work[w]) /\ Fits(work[w]) /\ work[w].msg # None
  BY WorkInHand, SuggestionsAssumption DEF MailInv
<1>2. work[w].entity = None /\ work[w].create = None /\ work[w].history = {}
  BY <1>1 DEF Places, LinksHistory, Fits, Shaped, OneActivity, SyncSteps
<1>3. OneActivity(new)'
  <2>0. ASSUME NEW x \in Messages PROVE About(new, x)' <=> x = work[w].msg
    BY <1>2, SuggestionsAssumption DEF About, SyncSteps
  <2>1. CASE new.attach = work[w].attach
    <3>1. OneActivity(work[w]) /\ stored' = stored /\ DOMAIN activities \subseteq DOMAIN activities'
      BY <1>1 DEF Places, Extends
    <3>2. \A x \in work[w].attach : x[1] = work[w].msg
      BY <1>1, <1>2, SuggestionsAssumption DEF Places, OneActivity, About, Fits, Shaped, SyncSteps
    <3> QED BY <1>2, <2>0, <2>1, <3>1, <3>2 DEF OneActivity
  <2>2. CASE \E id \in DOMAIN activities' : new.attach = {<<work[w].msg, id>>}
    <3>1. PICK id \in DOMAIN activities' : new.attach = {<<work[w].msg, id>>}
      BY <2>2
    <3> QED BY <1>2, <2>0, <3>1 DEF OneActivity
  <2> QED BY <2>1, <2>2
<1>4. LinksHistory(new)'
  BY <1>2 DEF LinksHistory
<1>5. Places(new)'
  BY <1>3, <1>4 DEF Places
<1>6. \A a : ~Gives(work[w], a)
  BY <1>2 DEF Gives
<1> QED BY <1>5, <1>6, MailFrame

LEMMA MailUpsert ==
  ASSUME SuggestInv, MailInv, NEW w \in Workers, NEW m \in Messages, UpsertEmailMessage(w, m)
  PROVE  MailInv'
<1>1. PICK new : new = [NoWork EXCEPT !.step = "match", !.msg = m, !.screen = Screening(m)]
  OBVIOUS
<1>2. /\ new.step = "match" /\ new.msg = m /\ new.entity = None /\ new.create = None
      /\ new.history = {} /\ new.attach = {}
  BY <1>1 DEF NoWork
<1>3. Extends /\ Note({}) /\ Becomes(w, new) /\ work[w] = NoWork
  BY <1>1 DEF Extends, UpsertEmailMessage
<1>4. Places(new)'
  BY <1>2 DEF Places, LinksHistory, LinksMessage, OneActivity, UpsertEmailMessage
<1> QED BY <1>3, <1>4, NoWorkPlaces, MailFrame

LEMMA MailSync ==
  ASSUME SuggestInv, MailInv, NEW w \in Workers, Sync(w)
  PROVE  MailInv'
<1> DEFINE t == work[w]
<1>1. t \in Work /\ Fits(t) /\ Places(t)
  BY WorkInHand DEF MailInv
<1>0. /\ Note({}) /\ overlooked \subseteq overlooked'
      /\ t.step = "create" \/ t.entity # None => t.prompt \in DOMAIN prompts
  BY Zenon, Noted, KnowsPrompt DEF Sync, UpsertEmailMessage, linkEmailToTimeline, suggestDealLinks,
                                  ScreenSender, SuggestSender
<1>2. ASSUME t.step \in {"match", "deals", "screen", "exists"} PROVE t.msg \in Messages
  BY <1>1, <1>2 DEF Fits, Shaped, Work
<1>3. ASSUME NEW new, Becomes(w, new),
             UNCHANGED <<stored, activityOf, activities, prompts, primary, extra>>,
             t.step \in {"deals", "screen", "exists"}, new.step \in SyncSteps,
             new.msg = t.msg, new.entity = t.entity, new.create = t.create,
             new.history = t.history, new.attach = t.attach
      PROVE  MailInv'
  <2>0. new.entity = None /\ new.step # "create"
    BY <1>1, <1>2, <1>3, SuggestionsAssumption DEF Places, LinksHistory, SyncSteps
  <2>1. Extends
    BY <1>3 DEF Extends
  <2>2. LinksMessage(new)
    BY <1>1, <1>3 DEF Places, LinksMessage
  <2>3. LinksMessage(new)'
    BY <1>0, <2>0, <2>1, <2>2, ExtendsKeeps
  <2> QED BY <1>0, <1>2, <1>3, <2>1, <2>3, MailSyncStep
<1>4. CASE linkEmailToTimeline(w)
  <2> DEFINE known == {a \in relevantEmails(t.msg) : Owners(a) # {}}
  <2>1. t.step = "match" /\ t.msg \in Messages
    BY <1>2, <1>4 DEF linkEmailToTimeline
  <2>2. Sender[t.msg] # None => Sender[t.msg] \in relevantEmails(t.msg)
    BY DEF relevantEmails
  <2>3. t.msg \notin overlooked => t.msg \notin stored
    BY <1>1, <2>1, SuggestionsAssumption DEF Places, LinksMessage
  <2>4. CASE known = {} /\ Becomes(w, [t EXCEPT !.step = "screen"]) /\ UNCHANGED activities
    <3>1. PICK new : new = [t EXCEPT !.step = "screen"]
      OBVIOUS
    <3>2. /\ new.step = "screen" /\ new.msg = t.msg /\ new.entity = t.entity
          /\ new.create = t.create /\ new.history = t.history /\ new.attach = t.attach
      BY <1>1, <3>1 DEF Work
    <3>3. Extends
      BY <1>4, <2>4 DEF Extends, linkEmailToTimeline
    <3>4. LinksMessage(new)
      BY <2>2, <2>3, <2>4, <3>2 DEF LinksMessage
    <3>5. LinksMessage(new)'
      <4>1. new.entity = None /\ new.step # "create"
        BY <1>1, <2>1, <3>2, SuggestionsAssumption DEF Places, LinksHistory
      <4> QED BY <1>0, <3>3, <3>4, <4>1, ExtendsKeeps
    <3> QED BY <1>0, <2>1, <2>4, <3>1, <3>2, <3>3, <3>5, MailSyncStep DEF SyncSteps
  <2>5. CASE ~(known = {} /\ Becomes(w, [t EXCEPT !.step = "screen"]) /\ UNCHANGED activities)
    <3>1. /\ Becomes(w, [t EXCEPT !.step = "deals", !.attach = {<<t.msg, Len(activities) + 1>>}])
          /\ UNCHANGED <<stored, activityOf, prompts, primary, extra>>
          /\ \E found \in [known -> Entities] :
               /\ \A a \in known : found[a] \in Owners(a)
               /\ activities' = Append(activities, [msg |-> t.msg, links |-> {found[a] : a \in known}])
      BY <1>4, <2>5, Zenon DEF linkEmailToTimeline
    <3>2. PICK found \in [known -> Entities] :
            /\ \A a \in known : found[a] \in Owners(a)
            /\ activities' = Append(activities, [msg |-> t.msg, links |-> {found[a] : a \in known}])
      BY <3>1
    <3>3. PICK id : id = Len(activities) + 1
      OBVIOUS
    <3>4. PICK links : links = {found[a] : a \in known}
      OBVIOUS
    <3>5. /\ id \in DOMAIN activities' /\ activities'[id].links = links
          /\ DOMAIN activities \subseteq DOMAIN activities'
          /\ \A a \in DOMAIN activities : activities'[a] = activities[a]
      <4>1. PICK row : row = [msg |-> t.msg, links |-> links]
        OBVIOUS
      <4>2. activities' = Append(activities, row) /\ row.links = links
        BY <3>2, <3>4, <4>1
      <4> QED BY <3>3, <4>2, ActivitiesExtend
    <3>6. PICK attach : attach = {<<t.msg, id>>}
      OBVIOUS
    <3>7. PICK new : new = [t EXCEPT !.step = "deals", !.attach = attach]
      OBVIOUS
    <3>8. /\ new.step = "deals" /\ new.msg = t.msg /\ new.entity = t.entity
          /\ new.create = t.create /\ new.history = t.history /\ new.attach = attach
      BY <1>1, <3>7 DEF Work
    <3>9. Becomes(w, new)
      BY <3>1, <3>3, <3>6, <3>7
    <3>10. Extends
      BY <3>1, <3>5 DEF Extends
    <3>11. LinksMessage(new)'
      <4>1. PICK m : m = t.msg
        OBVIOUS
      <4> SUFFICES ASSUME m \notin overlooked', Sender[m] # None, Owners(Sender[m])' # {}
                   PROVE  /\ <<m, id>> \in new.attach
                          /\ activities'[id].links \cap Owners(Sender[m])' # {}
        BY <1>0, <2>3, <3>1, <3>5, <3>8, <4>1 DEF LinksMessage
      <4>2. Owners(Sender[m])' = Owners(Sender[m])
        BY <3>1 DEF Owners
      <4>3. Sender[m] \in known
        BY <2>2, <4>1, <4>2
      <4>4. found[Sender[m]] \in links /\ found[Sender[m]] \in Owners(Sender[m])
        BY <3>2, <3>4, <4>3
      <4> QED BY <3>5, <3>6, <3>8, <4>1, <4>2, <4>4
    <3> QED BY <1>0, <2>1, <3>5, <3>6, <3>8, <3>9, <3>10, <3>11, MailSyncStep DEF SyncSteps
  <2> QED BY <2>4, <2>5
<1>5. ASSUME NEW step \in SyncSteps, NEW screen, NEW suggest,
             \/ Becomes(w, [t EXCEPT !.step = step])
             \/ Becomes(w, [t EXCEPT !.screen = screen])
             \/ Becomes(w, [t EXCEPT !.step = step, !.suggest = suggest])
             \/ Becomes(w, [t EXCEPT !.step = step, !.screen = screen, !.suggest = suggest]),
             t.step \in {"deals", "screen", "exists"},
             UNCHANGED <<stored, activityOf, activities, prompts, primary, extra>>
      PROVE  MailInv'
  <2>1. PICK new : /\ Becomes(w, new)
                   /\ \/ new = [t EXCEPT !.step = step]
                      \/ new = [t EXCEPT !.screen = screen]
                      \/ new = [t EXCEPT !.step = step, !.suggest = suggest]
                      \/ new = [t EXCEPT !.step = step, !.screen = screen, !.suggest = suggest]
    BY <1>5, Zenon
  <2>2. /\ new.msg = t.msg /\ new.entity = t.entity /\ new.create = t.create
        /\ new.history = t.history /\ new.attach = t.attach /\ new.step \in {step, t.step}
    BY <1>1, <2>1 DEF Work
  <2> QED BY <1>3, <1>5, <2>1, <2>2 DEF SyncSteps
<1>6. {"screen", "exists", "commit"} \subseteq SyncSteps
  BY DEF SyncSteps
<1>7. CASE suggestDealLinks(w)
  <2>1. PICK suggest : Becomes(w, [t EXCEPT !.step = "screen", !.suggest = suggest])
    BY <1>7, Zenon DEF suggestDealLinks
  <2> QED BY <1>5, <1>6, <1>7, <2>1 DEF suggestDealLinks
<1>8. CASE ScreenSender(w)
  <2>1. \E step \in {"exists", "commit"} : \/ Becomes(w, [t EXCEPT !.step = step])
                                           \/ Becomes(w, [t EXCEPT !.screen = Tail(t.screen)])
    BY <1>8, Zenon DEF ScreenSender
  <2>2. /\ t.step = "screen"
        /\ UNCHANGED <<stored, activityOf, activities, prompts, primary, extra>>
    BY <1>8 DEF ScreenSender
  <2> QED BY <1>5, <1>6, <2>1, <2>2
<1>9. CASE SuggestSender(w)
  <2>1. PICK suggest :
          Becomes(w, [t EXCEPT !.step = "screen", !.screen = Tail(t.screen), !.suggest = suggest])
    BY <1>9, Zenon DEF SuggestSender
  <2> QED BY <1>5, <1>6, <1>9, <2>1 DEF SuggestSender
<1> QED BY <1>4, <1>7, <1>8, <1>9, MailUpsert DEF Sync

\* A unit of work that gives nobody anything.
LEMMA MailQuiet ==
  ASSUME SuggestInv, MailInv, NEW w \in Workers, NEW new, Becomes(w, new), NEW aside,
         Note(aside), Extends,
         work[w].entity = None \/ work[w].create # None,
         new.msg = None, new.entity = None, new.create = None, new.history = {}, new.attach = {},
         new.step # "create"
  PROVE  MailInv'
<1>1. Places(new)'
  BY DEF Places, LinksHistory, LinksMessage, OneActivity
<1>2. \A a : ~(Gives(work[w], a) /\ work[w].create = None)
  BY DEF Gives
<1> QED BY <1>1, <1>2, MailFrame

\* Suggestions change their status at most.
LEMMA StatusExtends ==
  ASSUME SuggestInv, UNCHANGED <<stored, activityOf, activities, primary, extra>>,
         \/ prompts' = prompts
         \/ \E p \in DOMAIN prompts, status \in {"open", "accepted", "dismissed"} :
              prompts' = [prompts EXCEPT ![p].status = status]
  PROVE  Extends
<1>1. prompts \in Seq(Prompt)
  BY DEF SuggestInv, Types
<1>2. ASSUME NEW p \in DOMAIN prompts, NEW status \in {"open", "accepted", "dismissed"},
             prompts' = [prompts EXCEPT ![p].status = status]
      PROVE  /\ DOMAIN prompts' = DOMAIN prompts
             /\ \A i \in DOMAIN prompts : prompts'[i].target = prompts[i].target
  <2>1. PICK ps : ps = [prompts EXCEPT ![p].status = status]
    OBVIOUS
  <2>2. DOMAIN ps = DOMAIN prompts /\ \A i \in DOMAIN prompts : ps[i].target = prompts[i].target
    BY <1>1, <2>1, StatusSet
  <2>3. prompts' = ps
    BY <1>2, <2>1
  <2> QED BY <2>2, <2>3
<1> QED BY <1>2 DEF Extends

LEMMA MailAccept ==
  ASSUME SuggestInv, MailInv, NEW w \in Workers, NEW p \in DOMAIN prompts,
         AcceptPrompt(w, p)
  PROVE  MailInv'
<1> DEFINE s == prompts[p]
<1>1. work[w].entity = None
  BY DEF AcceptPrompt, NoWork
<1>2. Extends /\ Note({})
  BY StatusExtends DEF AcceptPrompt
<1>3. ASSUME NEW step \in {"commit", "create"}, NEW link,
             \/ Becomes(w, [NoWork EXCEPT !.step = step, !.prompt = p, !.link = link])
             \/ Becomes(w, [NoWork EXCEPT !.step = step, !.prompt = p])
      PROVE  MailInv'
  <2>1. PICK new : /\ Becomes(w, new)
                   /\ \/ new = [NoWork EXCEPT !.step = step, !.prompt = p, !.link = link]
                      \/ new = [NoWork EXCEPT !.step = step, !.prompt = p]
    BY <1>3, Zenon
  <2>2. /\ new.step = step /\ new.prompt = p /\ new.msg = None /\ new.entity = None
        /\ new.create = None /\ new.history = {} /\ new.attach = {}
    BY <2>1 DEF NoWork
  <2>5. Places(new)'
    BY <2>2 DEF Places, LinksHistory, LinksMessage, OneActivity
  <2>6. \A a : ~Gives(work[w], a)
    BY <1>1 DEF Gives
  <2> QED BY <1>2, <2>1, <2>5, <2>6, MailFrame
<1>4. CASE s.kind = "email_deal_link"
  <2>1. PICK link : Becomes(w, [NoWork EXCEPT !.step = "commit", !.prompt = p, !.link = link])
    BY <1>4, Zenon DEF AcceptPrompt
  <2> QED BY <1>3, <2>1
<1>5. CASE s.kind # "email_deal_link"
  <2>1. PICK step : step = IF Owners(s.target) = {} THEN "create" ELSE "commit"
    OBVIOUS
  <2>2. Becomes(w, [NoWork EXCEPT !.step = step, !.prompt = p])
    BY <1>5, <2>1 DEF AcceptPrompt
  <2> QED BY <1>3, <2>1, <2>2
<1> QED BY <1>4, <1>5

LEMMA MailCreate ==
  ASSUME SuggestInv, MailInv, NEW w \in Workers, NEW e \in Entities, CreateEntity(w, e)
  PROVE  MailInv'
<1> DEFINE t == work[w]
           s == prompts[t.prompt]
<1>1. t \in Work /\ Fits(t) /\ Places(t) /\ t.step = "create"
  BY WorkInHand DEF MailInv, CreateEntity
<1>2. /\ t.entity = None /\ t.msg = None /\ t.prompt \in DOMAIN prompts
      /\ s.kind # "email_deal_link" /\ t.attach = {} /\ t.history = {}
  BY <1>1 DEF Fits, Shaped, SyncSteps, Places, LinksHistory, OneActivity
<1>3. Extends /\ Note({}) /\ overlooked \subseteq overlooked'
  BY StatusExtends, Noted DEF CreateEntity
<1>4. CASE Becomes(w, NoWork)
  <2>1. /\ NoWork.msg = None /\ NoWork.entity = None /\ NoWork.create = None
        /\ NoWork.history = {} /\ NoWork.attach = {} /\ NoWork.step # "create"
    BY DEF NoWork
  <2> QED BY <1>2, <1>3, <1>4, <2>1, MailQuiet
<1>5. CASE ~Becomes(w, NoWork)
  <2>1. PICK step : step = IF s.kind = "new_contact" THEN "list" ELSE "commit"
    OBVIOUS
  <2>2. PICK target : target = s.target
    OBVIOUS
  <2>3. PICK new : new = [t EXCEPT !.entity = e, !.create = target, !.step = step]
    OBVIOUS
  <2>4. Becomes(w, new)
    BY <1>5, <2>1, <2>2, <2>3 DEF CreateEntity
  <2>5. /\ new.step = step /\ new.prompt = t.prompt /\ new.msg = None /\ new.create = target
        /\ new.entity = e /\ new.history = {} /\ new.attach = {}
    BY <1>1, <1>2, <2>3 DEF Work
  <2>6. s.target \in Addresses => step = "list"
    BY <1>2, <2>1, PromptsType DEF Kind
  <2>7. target # None
    BY <1>2, <2>2, PromptsType, SuggestionsAssumption DEF Targets
  <2>8. LinksHistory(new)
    BY <1>2, <2>1, <2>2, <2>5, <2>6, <2>7 DEF LinksHistory
  <2>9. LinksMessage(new) /\ OneActivity(new)
    BY <1>2, <2>1, <2>5 DEF LinksMessage, OneActivity
  <2>10. Places(new)'
    BY <1>2, <1>3, <2>5, <2>8, <2>9, ExtendsKeeps DEF Places
  <2>11. \A a : ~Gives(t, a)
    BY <1>2 DEF Gives
  <2> QED BY <1>3, <2>4, <2>10, <2>11, MailFrame
<1> QED BY <1>4, <1>5

LEMMA MailList ==
  ASSUME SuggestInv, MailInv, NEW w \in Workers, ListHistory(w)
  PROVE  MailInv'
<1> DEFINE t == work[w]
           a == prompts[t.prompt].target
<1>1. t \in Work /\ Fits(t) /\ Places(t) /\ t.step = "list"
  BY WorkInHand DEF MailInv, ListHistory
<1>2. /\ t.msg = None /\ t.prompt \in DOMAIN prompts /\ t.attach = {} /\ t.entity # None
  BY <1>1, SuggestionsAssumption DEF Fits, Shaped, SyncSteps
<1>3. PICK listed \in SUBSET MailOf(a) :
        /\ Becomes(w, [t EXCEPT !.step = "history", !.history = {<<m, activityOf[m]>> : m \in listed}])
        /\ Note(MailOf(a) \ listed)
  BY DEF ListHistory
<1>4. /\ Extends /\ overlooked \subseteq overlooked'
      /\ \A m \in MailOf(a) : m \in listed \/ m \in overlooked'
  BY <1>3, StatusExtends, Noted DEF ListHistory
<1> DEFINE found == {<<m, activityOf[m]>> : m \in listed}
<1>5. /\ \A m \in listed : <<m, activityOf[m]>> \in found
      /\ \A h \in found : h[1] \in listed /\ h[2] = activityOf[h[1]]
      /\ \A g, h \in found : g[1] = h[1] => g = h
  OBVIOUS
<1>6. Becomes(w, [t EXCEPT !.step = "history", !.history = found])
  BY <1>3
<1> HIDE DEF found
<1>7. PICK new : new = [t EXCEPT !.step = "history", !.history = found]
  OBVIOUS
<1>8. /\ new.step = "history" /\ new.prompt = t.prompt /\ new.msg = None /\ new.create = t.create
      /\ new.entity = t.entity /\ new.history = found /\ new.attach = {} /\ new.link = t.link
  BY <1>1, <1>2, <1>7 DEF Work
<1>9. LinksHistory(new)'
  <2>1. ASSUME NEW m \in stored \ overlooked', a \in Addresses, Sender[m] = a
        PROVE  Linked(new, m)'
    <3>1. m \in MailOf(a)
      BY <2>1, SuggestionsAssumption DEF MailOf, relevantEmails
    <3>2. <<m, activityOf[m]>> \in found
      BY <1>4, <1>5, <2>1, <3>1
    <3> QED BY <1>4, <1>8, <3>2 DEF Linked, Extends
  <2>2. stored' = stored /\ prompts'[t.prompt].target = a /\ t.prompt \in DOMAIN prompts'
    BY <1>2, <1>4 DEF Extends
  <2>3. \A b : Owners(b)' = Owners(b)
    BY <1>4 DEF Extends, Owners
  <2> QED BY <1>1, <1>2, <1>8, <2>1, <2>2, <2>3 DEF Places, LinksHistory
<1>10. OneActivity(new)'
  <2>1. ASSUME NEW h \in found
        PROVE  /\ h[1] \in stored /\ About(new, h[1])' /\ h[2] = activityOf[h[1]]
               /\ \A g \in found : g[1] = h[1] => g = h
    <3>1. h[1] \in stored /\ a \in relevantEmails(h[1])
      BY <1>5 DEF MailOf
    <3>2. prompts'[t.prompt].target = a
      BY <1>2, <1>4 DEF Extends
    <3> QED BY <1>2, <1>5, <1>8, <3>1, <3>2 DEF About
  <2> QED BY <1>4, <1>8, <2>1 DEF OneActivity, Extends
<1>11. Places(new)'
  BY <1>8, <1>9, <1>10 DEF Places, LinksMessage
<1>12. \A b : Gives(t, b) => Gives(new, b)'
  BY <1>2, <1>4, <1>8 DEF Gives, Extends
<1> QED BY <1>3, <1>4, <1>6, <1>7, <1>8, <1>11, <1>12, MailFrame

LEMMA MailHistory ==
  ASSUME SuggestInv, MailInv, NEW w \in Workers, LinkHistoricalEmail(w)
  PROVE  MailInv'
<1> DEFINE t == work[w]
           id == Len(activities) + 1
<1>1. t \in Work /\ Fits(t) /\ Places(t) /\ t.step = "history"
  BY WorkInHand DEF MailInv, LinkHistoricalEmail
<1>2. /\ t.msg = None /\ t.entity # None /\ t.prompt \in DOMAIN prompts
      /\ t.history \subseteq stored \X Nat /\ t.history \subseteq Messages \X Nat
  BY <1>1, SuggestionsAssumption DEF Fits, Shaped, SyncSteps, Places, LinksHistory, Work
<1>3. Extends /\ Note({}) /\ overlooked \subseteq overlooked'
  BY ActivitiesExtend, Noted DEF Extends, LinkHistoricalEmail
<1>4. ASSUME NEW new, Becomes(w, new), new.step \in {"history", "commit"},
             new.msg = None, new.prompt = t.prompt, new.entity = t.entity, new.create = t.create,
             OneActivity(new)',
             \A m \in stored \ overlooked' : Linked(t, m) => Linked(new, m)'
      PROVE  MailInv'
  <2>1. LinksHistory(new)'
    <3>1. PICK u : u = t
      OBVIOUS
    <3>2. LinksHistory(u) /\ u.entity # None /\ u.step = "history"
      BY <1>1, <1>2, <3>1 DEF Places
    <3>3. /\ new.prompt = u.prompt /\ new.entity = u.entity /\ new.create = u.create
          /\ \A m \in stored \ overlooked' : Linked(u, m) => Linked(new, m)'
      BY <1>4, <3>1
    <3>4. \A a : Owners(a)' = Owners(a)
      BY <1>3 DEF Extends, Owners
    <3> QED BY <1>3, <1>4, <3>2, <3>3, <3>4 DEF LinksHistory, Extends
  <2>2. LinksMessage(new)'
    BY <1>4 DEF LinksMessage
  <2>4. Places(new)'
    BY <1>4, <2>1, <2>2 DEF Places
  <2>5. \A a : Gives(t, a) => Gives(new, a)'
    BY <1>2, <1>3, <1>4 DEF Gives, Extends
  <2> QED BY <1>3, <1>4, <2>4, <2>5, MailFrame
<1>5. CASE t.history = {} /\ Becomes(w, [t EXCEPT !.step = "commit"])
  <2>1. PICK new : new = [t EXCEPT !.step = "commit"]
    OBVIOUS
  <2>2. /\ new.step = "commit" /\ new.prompt = t.prompt /\ new.msg = None /\ new.create = t.create
        /\ new.entity = t.entity /\ new.history = {} /\ new.attach = t.attach /\ new.link = t.link
    BY <1>1, <1>2, <1>5, <2>1 DEF Work
  <2>3. OneActivity(new)
    BY <1>1, <1>2, <2>2 DEF Places, OneActivity, About
  <2>4. \A m \in stored : Linked(t, m) => Linked(new, m)
    BY <1>5, <2>2 DEF Linked
  <2> QED BY <1>2, <1>3, <1>4, <1>5, <2>1, <2>2, <2>3, <2>4, ExtendsKeeps
<1>6. ASSUME NEW h \in t.history, h[2] # 0,
             Becomes(w, [t EXCEPT !.history = t.history \ {h},
                                  !.link = t.link \cup {<<h[2], t.entity>>}])
      PROVE  MailInv'
  <2>1. PICK history, link : history = t.history \ {h} /\ link = t.link \cup {<<h[2], t.entity>>}
    OBVIOUS
  <2>2. PICK new : new = [t EXCEPT !.history = history, !.link = link]
    OBVIOUS
  <2>3. /\ new.step = "history" /\ new.prompt = t.prompt /\ new.msg = None /\ new.create = t.create
        /\ new.entity = t.entity /\ new.history = history /\ new.attach = t.attach /\ new.link = link
    BY <1>1, <1>2, <2>2 DEF Work
  <2>4. OneActivity(new)
    BY <1>1, <1>2, <2>1, <2>3 DEF Places, OneActivity, About
  <2>5. \A m \in stored : Linked(t, m) => Linked(new, m)
    BY <1>6, <2>1, <2>3 DEF Linked
  <2> QED BY <1>2, <1>3, <1>4, <1>6, <2>1, <2>2, <2>3, <2>4, <2>5, ExtendsKeeps
<1>7. ASSUME NEW h \in t.history, h[2] = 0,
             activities' = Append(activities, [msg |-> h[1], links |-> {t.entity}]),
             Becomes(w, [t EXCEPT !.history = t.history \ {h},
                                  !.attach = t.attach \cup {<<h[1], id>>}])
      PROVE  MailInv'
  <2>1. PICK history, attach : history = t.history \ {h} /\ attach = t.attach \cup {<<h[1], id>>}
    OBVIOUS
  <2>2. PICK new : new = [t EXCEPT !.history = history, !.attach = attach]
    OBVIOUS
  <2>3. /\ new.step = "history" /\ new.prompt = t.prompt /\ new.msg = None /\ new.create = t.create
        /\ new.entity = t.entity /\ new.history = history /\ new.attach = attach /\ new.link = t.link
    BY <1>1, <1>2, <2>2 DEF Work
  <2>4. /\ id \in DOMAIN activities' /\ activities'[id].links = {t.entity}
        /\ DOMAIN activities \subseteq DOMAIN activities' /\ stored' = stored
        /\ activityOf' = activityOf
    <3>1. PICK row : row = [msg |-> h[1], links |-> {t.entity}]
      OBVIOUS
    <3>2. activities' = Append(activities, row) /\ row.links = {t.entity}
      BY <1>7, <3>1
    <3> QED BY <1>3, <3>2, ActivitiesExtend DEF Extends
  <2>5. OneActivity(new)'
    <3>1. OneActivity(t) /\ h[1] \in stored /\ About(t, h[1])
      BY <1>1 DEF Places, OneActivity
    <3>2. \A g \in history : g \in t.history /\ g[1] # h[1]
      BY <2>1, <3>1 DEF OneActivity
    <3>3. \A x \in t.attach : x[1] # h[1]
      BY <3>1 DEF OneActivity
    <3>4. \A m : About(t, m) => About(new, m)'
      BY <1>2, <1>3, <2>3 DEF About, Extends
    <3>5. ASSUME NEW g \in history
          PROVE  /\ g[1] \in stored /\ About(new, g[1])'
                 /\ g[1] \notin overlooked' => g[2] = activityOf[g[1]]
                 /\ \A f \in history : f[1] = g[1] => f = g
                 /\ \A x \in attach : x[1] # g[1]
      BY <1>3, <2>1, <3>1, <3>2, <3>4 DEF OneActivity
    <3>6. ASSUME NEW x \in attach
          PROVE  /\ x[1] \in stored \cup {t.msg} /\ About(new, x[1])' /\ x[2] \in DOMAIN activities'
                 /\ \A y \in attach : x[1] = y[1] => x = y
      <4>1. CASE x \in t.attach
        BY <2>1, <2>4, <3>1, <3>3, <3>4, <4>1 DEF OneActivity
      <4>2. CASE x = <<h[1], id>>
        BY <2>1, <2>4, <3>1, <3>3, <3>4, <4>2
      <4> QED BY <2>1, <4>1, <4>2
    <3> QED BY <1>2, <2>3, <2>4, <3>5, <3>6 DEF OneActivity
  <2>6. ASSUME NEW m \in stored, Linked(t, m) PROVE Linked(new, m)'
    <3>1. CASE <<m, activityOf[m]>> = h
      <4>1. activityOf'[m] = 0 /\ <<m, id>> \in new.attach
        BY <1>7, <2>1, <2>3, <2>4, <3>1
      <4> QED BY <2>3, <2>4, <4>1 DEF Linked
    <3>2. CASE <<m, activityOf[m]>> # h
      <4>1. Linked(new, m)
        BY <2>1, <2>3, <2>6, <3>2 DEF Linked
      <4> QED BY <1>3, <4>1 DEF Linked, Extends
    <3> QED BY <3>1, <3>2
  <2> QED BY <1>4, <1>7, <2>1, <2>2, <2>3, <2>5, <2>6
<1>8. CASE t.create # None /\ Becomes(w, NoWork)
  <2>1. /\ NoWork.msg = None /\ NoWork.entity = None /\ NoWork.create = None
        /\ NoWork.history = {} /\ NoWork.attach = {} /\ NoWork.step # "create"
    BY DEF NoWork
  <2> QED BY <1>3, <1>8, <2>1, MailQuiet
<1> QED BY <1>5, <1>6, <1>7, <1>8, Zenon DEF LinkHistoricalEmail, EntityVisible

LEMMA MailLinkPerson ==
  ASSUME SuggestInv, MailInv, NEW w \in Workers, NEW p \in DOMAIN prompts,
         NEW e \in Entities, LinkSuggestionToPerson(w, p, e)
  PROVE  MailInv'
<1>1. PICK new : new = [NoWork EXCEPT !.step = "list", !.prompt = p, !.entity = e]
  OBVIOUS
<1>2. /\ new.step = "list" /\ new.prompt = p /\ new.entity = e /\ new.msg = None
      /\ new.create = None /\ new.history = {} /\ new.attach = {}
  BY <1>1 DEF NoWork
<1>3. PICK a : a = prompts[p].target
  OBVIOUS
<1>4. /\ UNCHANGED <<stored, activityOf, activities, prompts, primary>>
      /\ extra' = extra \cup {<<e, a>>} /\ Becomes(w, new) /\ work[w] = NoWork
      /\ Note({}) /\ Alone' /\ overlooked \subseteq overlooked'
  BY <1>1, <1>3, Noted DEF LinkSuggestionToPerson
<1>5. work'[w] = new /\ \A v \in Workers \ {w} : work'[v] = work[v]
  BY <1>4 DEF Becomes, SuggestInv, Types
<1>6. ActivitiesKnown'
  BY <1>4 DEF MailInv, ActivitiesKnown
<1>7. Places(new)'
  <2>1. e \in Owners(a)'
    BY <1>4 DEF Owners
  <2>2. a \in Addresses
    BY <1>3, PromptsType DEF LinkSuggestionToPerson, Kind
  <2> QED BY <1>2, <1>3, <1>4, <2>1, <2>2, SuggestionsAssumption
          DEF Places, LinksHistory, LinksMessage, OneActivity, Owners
<1>8. /\ \A b : Owners(b) \subseteq Owners(b)'
      /\ \A b : b # a => Owners(b)' = Owners(b)
  BY <1>4 DEF Owners
<1>9. \A m \in Messages : Sender[m] = a /\ a # None => About(work[w], m)'
  <2>1. e # None
    BY SuggestionsAssumption
  <2> QED BY <1>2, <1>3, <1>4, <1>5, <2>1 DEF About, relevantEmails
<1>10. ASSUME NEW v \in Workers \ {w} PROVE Places(work[v])'
  <2>1. PICK t : t = work[v]
    OBVIOUS
  <2>2. /\ Places(t) /\ (t.step = "create" \/ t.entity # None => t.prompt \in DOMAIN prompts)
        /\ t.msg \in Messages \cup {None} /\ stored \subseteq Messages /\ work'[v] = t
    BY <1>5, <2>1, KnowsPrompt, WorkInHand DEF MailInv, Work, SuggestInv, Types
  <2>3. ASSUME NEW m \in Messages \ overlooked', About(t, m), Sender[m] # None
        PROVE  Owners(Sender[m])' = Owners(Sender[m])
    <3>1. About(work[v], m)'
      BY <1>4, <2>2, <2>3 DEF About
    <3>2. ~About(work[w], m)'
      BY <1>4, <2>3, <3>1 DEF Alone
    <3> QED BY <1>8, <1>9, <2>3, <3>2
  <2>4. Places(t)'
    BY <1>4, <1>8, <2>2, <2>3, OthersPlaces
  <2> QED BY <2>2, <2>4 DEF Places, LinksHistory, Linked, LinksMessage, OneActivity, About
<1>11. ASSUME NEW m \in stored' \ overlooked', Sender[m] # None, Owners(Sender[m])' # {}
       PROVE  OnTimeline(m)' \/ \E v \in Workers : Gives(work[v], Sender[m])' /\ work'[v].create = None
  <2>1. CASE Sender[m] = a
    <3>1. Gives(work[w], Sender[m])' /\ work'[w].create = None
      BY <1>2, <1>3, <1>4, <1>5, <2>1, SuggestionsAssumption DEF Gives
    <3> QED BY <3>1
  <2>2. CASE Sender[m] # a
    <3>1. m \in stored \ overlooked /\ Owners(Sender[m]) # {}
      BY <1>4, <1>8, <1>11, <2>2
    <3>2. CASE OnTimeline(m)
      BY <1>4, <1>8, <2>2, <3>2 DEF OnTimeline
    <3>3. ASSUME NEW v \in Workers, Gives(work[v], Sender[m]), work[v].create = None
          PROVE  Gives(work[v], Sender[m])' /\ work'[v].create = None
      <4>1. v # w
        BY <1>4, <3>3, NoWorkPlaces
      <4> QED BY <1>4, <1>5, <3>3, <4>1 DEF Gives
    <3> QED BY <1>11, <3>1, <3>2, <3>3 DEF MailInv, MailPlaced
  <2> QED BY <2>1, <2>2
<1>12. MailPlaced'
  BY <1>11 DEF MailPlaced
<1> QED BY <1>4, <1>6, <1>7, <1>10, <1>12, MailStep

LEMMA MailLinkCompany ==
  ASSUME SuggestInv, MailInv, NEW w \in Workers, NEW p \in DOMAIN prompts,
         NEW e \in Entities, LinkSuggestionToCompany(w, p, e)
  PROVE  MailInv'
<1>1. PICK a : a = prompts[p].target
  OBVIOUS
<1>2. a \notin Addresses
  BY <1>1, PromptsType DEF LinkSuggestionToCompany, Kind
<1>3. /\ UNCHANGED <<stored, activityOf, activities, primary, work>>
      /\ extra' = extra \cup {<<e, a>>} /\ Becomes(w, NoWork) /\ work[w] = NoWork
      /\ Note({}) /\ overlooked \subseteq overlooked'
  BY <1>1, Stays, Noted DEF LinkSuggestionToCompany
<1>4. DOMAIN prompts' = DOMAIN prompts /\ \A q \in DOMAIN prompts : prompts'[q].target = prompts[q].target
  <2>1. PICK ps : ps = [prompts EXCEPT ![p].status = "accepted"]
    OBVIOUS
  <2>2. prompts \in Seq(Prompt)
    BY DEF SuggestInv, Types
  <2>3. DOMAIN ps = DOMAIN prompts /\ \A q \in DOMAIN prompts : ps[q].target = prompts[q].target
    BY <2>1, <2>2, StatusSet
  <2>4. prompts' = ps
    BY <2>1 DEF LinkSuggestionToCompany
  <2> QED BY <2>3, <2>4
<1>5. ActivitiesKnown'
  BY <1>3 DEF MailInv, ActivitiesKnown
<1>6. /\ \A b : Owners(b) \subseteq Owners(b)'
      /\ \A b \in Addresses : Owners(b)' = Owners(b)
      /\ \A m \in Messages : Sender[m] # None => Sender[m] \in Addresses
  BY <1>2, <1>3, SuggestionsAssumption DEF Owners
<1>7. stored \subseteq Messages
  BY DEF SuggestInv, Types
<1>8. ASSUME NEW v \in Workers \ {w} PROVE Places(work[v])'
  <2>1. PICK t : t = work[v]
    OBVIOUS
  <2>2. /\ Places(t) /\ (t.step = "create" \/ t.entity # None => t.prompt \in DOMAIN prompts)
        /\ t.msg \in Messages \cup {None} /\ work'[v] = t
    BY <1>3, <2>1, KnowsPrompt, WorkInHand DEF MailInv, Work
  <2>3. Places(t)'
    BY <1>3, <1>4, <1>6, <1>7, <2>2, OthersPlaces
  <2> QED BY <2>2, <2>3 DEF Places, LinksHistory, Linked, LinksMessage, OneActivity, About
<1>9. ASSUME NEW m \in stored' \ overlooked', Sender[m] # None, Owners(Sender[m])' # {}
      PROVE  OnTimeline(m)' \/ \E v \in Workers : Gives(work[v], Sender[m])' /\ work'[v].create = None
  <2>1. m \in stored \ overlooked /\ Owners(Sender[m])' = Owners(Sender[m])
    BY <1>3, <1>6, <1>7, <1>9
  <2>2. CASE OnTimeline(m)
    BY <1>3, <2>1, <2>2 DEF OnTimeline
  <2>3. ASSUME NEW v \in Workers, Gives(work[v], Sender[m]), work[v].create = None
        PROVE  Gives(work[v], Sender[m])' /\ work'[v].create = None
    <3>1. work[v].prompt \in DOMAIN prompts
      BY <2>3, KnowsPrompt DEF Gives
    <3> QED BY <1>3, <1>4, <2>3, <3>1 DEF Gives
  <2> QED BY <1>9, <2>1, <2>2, <2>3 DEF MailInv, MailPlaced
<1>10. MailPlaced'
  BY <1>9 DEF MailPlaced
<1> QED BY <1>3, <1>5, <1>8, <1>10, NoWorkPlaces, MailStep

LEMMA MailResolve ==
  ASSUME SuggestInv, MailInv, NEW w \in Workers, Resolve(w)
  PROVE  MailInv'
<1> DEFINE t == work[w]
<1>1. /\ NoWork.msg = None /\ NoWork.entity = None /\ NoWork.create = None
      /\ NoWork.history = {} /\ NoWork.attach = {} /\ NoWork.step # "create"
  BY DEF NoWork
<1>5. PICK aside : Note(aside)
  BY Zenon DEF Resolve, AcceptPrompt, CreateEntity, LinkSuggestionToPerson, ListHistory,
               LinkHistoricalEmail, LinkSuggestionToCompany, ResolvePrompt, SuppressPrompt,
               UnsuppressPrompt, ResolveSuppressed
<1>2. ASSUME NEW p \in DOMAIN prompts, NEW status \in {"accepted", "dismissed", "open"},
             ResolvePrompt(w, p, status)
      PROVE  MailInv'
  <2>1. Becomes(w, NoWork) /\ t = NoWork
    BY <1>2, Stays DEF ResolvePrompt
  <2>2. Extends
    BY <1>2, StatusExtends DEF ResolvePrompt
  <2> QED BY <1>1, <1>5, <2>1, <2>2, MailQuiet
<1>3. CASE ResolveSuppressed(w)
  <2>1. t.step \in {"dismissed", "open"} /\ Fits(t) /\ Places(t)
    BY <1>3, WorkInHand DEF ResolveSuppressed, MailInv
  <2>2. t.prompt \in DOMAIN prompts /\ t.entity = None
    BY <2>1 DEF Fits, Shaped, Places, LinksHistory
  <2>3. Extends
    BY <1>3, <2>1, <2>2, StatusExtends DEF ResolveSuppressed
  <2> QED BY <1>1, <1>3, <1>5, <2>2, <2>3, MailQuiet DEF ResolveSuppressed
<1>4. ASSUME NEW p \in DOMAIN prompts, SuppressPrompt(w, p) \/ UnsuppressPrompt(w, p)
      PROVE  MailInv'
  <2>1. PICK step \in {"dismissed", "open"} : Becomes(w, [NoWork EXCEPT !.step = step, !.prompt = p])
    BY <1>4, Zenon DEF SuppressPrompt, UnsuppressPrompt
  <2>2. Extends /\ t = NoWork
    BY <1>4, StatusExtends DEF SuppressPrompt, UnsuppressPrompt
  <2>3. PICK new : new = [NoWork EXCEPT !.step = step, !.prompt = p]
    OBVIOUS
  <2>4. /\ new.msg = None /\ new.entity = None /\ new.create = None
        /\ new.history = {} /\ new.attach = {} /\ new.step # "create"
    BY <2>3 DEF NoWork
  <2> QED BY <1>1, <1>5, <2>1, <2>2, <2>3, <2>4, MailQuiet
<1> QED BY <1>2, <1>3, <1>4, MailAccept, MailCreate, MailList, MailHistory, MailLinkPerson,
           MailLinkCompany DEF Resolve

\* What a commit does to the rows of the timeline.
LEMMA CommitRows ==
  ASSUME SuggestInv, NEW w \in Workers, Commit(w)
  PROVE  /\ DOMAIN activities' = DOMAIN activities
         /\ \A a \in DOMAIN activities : activities[a].links \subseteq activities'[a].links
         /\ \A a \in DOMAIN activities :
              \A e : <<a, e>> \in work[w].link => e \in activities'[a].links
         /\ \A m \in Messages : activityOf[m] # 0 => activityOf'[m] = activityOf[m]
         /\ \A m \in Messages :
              \A id : (/\ activityOf[m] = 0 /\ <<m, id>> \in work[w].attach
                       /\ \A x, y \in work[w].attach : x[1] = y[1] => x = y)
                      => activityOf'[m] = id
         /\ \A m \in Messages :
              (\A x \in work[w].attach : x[1] # m) => activityOf'[m] = activityOf[m]
<1> DEFINE t == work[w]
<1>1. DOMAIN activities' = DOMAIN activities
  BY DEF Commit
<1>2. ASSUME NEW a \in DOMAIN activities
      PROVE  /\ activities[a].links \subseteq activities'[a].links
             /\ \A e : <<a, e>> \in t.link => e \in activities'[a].links
  <2>1. activities[a] \in Activity
    BY ElementOfSeq, LenProperties DEF SuggestInv, Types
  <2>2. PICK l : l = {x[2] : x \in {y \in t.link : y[1] = a}}
    OBVIOUS
  <2>3. activities'[a] = [activities[a] EXCEPT !.links = @ \cup l]
    BY <2>2 DEF Commit
  <2>4. activities'[a].links = activities[a].links \cup l
    BY <2>1, <2>3 DEF Activity
  <2>5. ASSUME NEW e, <<a, e>> \in t.link PROVE e \in l
    <3>1. <<a, e>> \in {y \in t.link : y[1] = a}
      BY <2>5
    <3>2. <<a, e>>[2] = e
      OBVIOUS
    <3> QED BY <2>2, <3>1, <3>2
  <2> QED BY <2>4, <2>5
<1>3. activityOf' = [m \in Messages |->
                       IF activityOf[m] = 0 /\ \E x \in t.attach : x[1] = m
                         THEN (CHOOSE x \in t.attach : x[1] = m)[2] ELSE activityOf[m]]
  BY DEF Commit, Attach
<1>4. ASSUME NEW m \in Messages, NEW id, activityOf[m] = 0, <<m, id>> \in t.attach,
             \A x, y \in t.attach : x[1] = y[1] => x = y
      PROVE  activityOf'[m] = id
  <2>1. <<m, id>>[1] = m /\ <<m, id>>[2] = id
    OBVIOUS
  <2>2. \E x \in t.attach : x[1] = m
    BY <1>4, <2>1
  <2>3. /\ (CHOOSE x \in t.attach : x[1] = m) \in t.attach
        /\ (CHOOSE x \in t.attach : x[1] = m)[1] = m
    BY <2>2
  <2>4. (CHOOSE x \in t.attach : x[1] = m) = <<m, id>>
    BY <1>4, <2>1, <2>3
  <2> QED BY <1>3, <1>4, <2>1, <2>2, <2>4
<1>5. \A m \in Messages : activityOf[m] # 0 => activityOf'[m] = activityOf[m]
  BY <1>3
<1>6. \A m \in Messages : (\A x \in t.attach : x[1] # m) => activityOf'[m] = activityOf[m]
  BY <1>3
<1> QED BY <1>1, <1>2, <1>4, <1>5, <1>6

LEMMA MailCommit ==
  ASSUME SuggestInv, MailInv, NEW w \in Workers, Commit(w)
  PROVE  MailInv'
<1> DEFINE t == work[w]
<1>1. t \in Work /\ Fits(t) /\ Places(t) /\ t.step = "commit"
  BY WorkInHand DEF MailInv, Commit
<1>2. /\ stored' = IF t.msg = None THEN stored ELSE stored \cup {t.msg}
      /\ stored \subseteq Messages /\ stored' \subseteq Messages
      /\ extra' = extra /\ Becomes(w, NoWork) /\ Note({}) /\ overlooked \subseteq overlooked'
      /\ primary' = IF t.create = None THEN primary ELSE [primary EXCEPT ![t.entity] = t.create]
      /\ primary \in [Entities -> Targets \cup {None}]
  BY CommitTypes, Noted DEF Commit, SuggestInv, Types
<1>3. OneActivity(t) /\ t.history = {} /\ \A x, y \in t.attach : x[1] = y[1] => x = y
  BY <1>1 DEF Places, OneActivity
<1>4. ActivitiesKnown'
  <2> SUFFICES ASSUME NEW m \in Messages
               PROVE  /\ activityOf'[m] \in {0} \cup DOMAIN activities
                      /\ m \notin stored' => activityOf'[m] = 0
    BY CommitRows DEF ActivitiesKnown
  <2>1. /\ activityOf[m] \in {0} \cup DOMAIN activities
        /\ m \notin stored => activityOf[m] = 0
    BY DEF MailInv, ActivitiesKnown
  <2>2. CASE activityOf[m] = 0 /\ \E x \in t.attach : x[1] = m
    <3>1. PICK x \in t.attach : x[1] = m
      BY <2>2
    <3>2. x = <<m, x[2]>> /\ x[2] \in DOMAIN activities /\ m \in stored \cup {t.msg}
      <4>1. t.attach \subseteq Messages \X Nat
        BY <1>1 DEF Work
      <4> QED BY <1>3, <3>1, <4>1 DEF OneActivity
    <3>3. activityOf'[m] = x[2]
      BY <1>3, <2>2, <3>2, CommitRows
    <3>4. m \in stored'
      BY <1>2, <3>2, SuggestionsAssumption
    <3> QED BY <3>2, <3>3, <3>4
  <2>3. CASE ~(activityOf[m] = 0 /\ \E x \in t.attach : x[1] = m)
    <3>1. activityOf'[m] = activityOf[m]
      BY <2>3, CommitRows
    <3> QED BY <1>2, <2>1, <3>1
  <2> QED BY <2>2, <2>3
<1>5. \A b : b # None => Owners(b) \subseteq Owners(b)'
  <2> SUFFICES ASSUME NEW b, b # None, NEW e \in Owners(b) PROVE e \in Owners(b)'
    OBVIOUS
  <2>1. t.create # None => primary[t.entity] = None
    BY <1>1 DEF Fits, Claimed
  <2> QED BY <1>2, <2>1 DEF Owners
<1>6. work'[w] = NoWork /\ \A v \in Workers \ {w} : work'[v] = work[v]
  BY <1>2 DEF Becomes, SuggestInv, Types
<1>7. t.create # None => t.entity # None /\ t.create = prompts[t.prompt].target
  BY <1>1, SuggestionsAssumption DEF Fits, Claimed, Places, LinksHistory
<1>8. ASSUME NEW v \in Workers \ {w} PROVE Places(work[v])'
  <2>1. PICK u : u = work[v]
    OBVIOUS
  <2>2. /\ Places(u) /\ (u.step = "create" \/ u.entity # None => u.prompt \in DOMAIN prompts)
        /\ u.msg \in Messages \cup {None} /\ work'[v] = u
    BY <1>6, <2>1, KnowsPrompt, WorkInHand DEF MailInv, Work
  <2>3. ASSUME NEW m \in Messages \ overlooked', About(u, m)
        PROVE  /\ activityOf'[m] = activityOf[m]
               /\ m \in stored' => m \in stored
               /\ Sender[m] # None => Owners(Sender[m])' = Owners(Sender[m])
    <3>1. ~About(t, m)
      BY <1>2, <2>1, <2>3 DEF MailInv, Alone
    <3>2. \A x \in t.attach : x[1] # m
      BY <1>3, <3>1 DEF OneActivity
    <3>3. t.msg # m
      BY <3>1 DEF About
    <3>4. ASSUME Sender[m] # None PROVE Owners(Sender[m])' = Owners(Sender[m])
      <4>1. Sender[m] \in relevantEmails(m)
        BY <3>4 DEF relevantEmails
      <4>2. t.create # None => t.create # Sender[m] /\ primary[t.entity] # Sender[m]
        BY <1>1, <1>7, <3>1, <3>4, <4>1 DEF About, Fits, Claimed
      <4> QED BY <1>2, <4>2 DEF Owners
    <3> QED BY <1>2, <3>2, <3>3, <3>4, CommitRows
  <2>4. \A b \in Addresses : Owners(b) \subseteq Owners(b)'
    BY <1>5, SuggestionsAssumption
  <2>5. Places(u)'
    BY <1>2, <2>2, <2>3, <2>4, CommitRows, NewSuggestions, OthersPlaces
  <2> QED BY <2>2, <2>5 DEF Places, LinksHistory, Linked, LinksMessage, OneActivity, About
<1>9. MailPlaced'
  <2> SUFFICES ASSUME NEW m \in stored' \ overlooked', Sender[m] # None, Owners(Sender[m])' # {}
               PROVE  \/ OnTimeline(m)'
                      \/ \E v \in Workers : Gives(work[v], Sender[m])' /\ work'[v].create = None
    BY DEF MailPlaced
  <2>1. /\ m \in Messages /\ Sender[m] \in Addresses /\ Sender[m] \in Targets
        /\ m \notin overlooked
    BY <1>2, SuggestionsAssumption DEF Targets
  <2>2. ASSUME NEW a \in DOMAIN activities, activityOf'[m] = a,
               \/ activities[a].links \cap Owners(Sender[m])' # {}
               \/ activities'[a].links \cap Owners(Sender[m])' # {}
        PROVE  OnTimeline(m)'
    BY <2>2, CommitRows DEF OnTimeline
  <2>3. Owners(Sender[m]) \subseteq Owners(Sender[m])'
    BY <1>5
  <2>4. CASE m \notin stored
    <3>1. t.msg = m /\ t.msg # None
      BY <1>2, <2>4, <2>1, SuggestionsAssumption
    <3>2. t.create = None
      BY <1>1, <3>1 DEF Fits, Shaped
    <3>3. Owners(Sender[m])' = Owners(Sender[m])
      BY <1>2, <3>2 DEF Owners
    <3>4. PICK id \in DOMAIN activities : /\ <<m, id>> \in t.attach
                                          /\ activities[id].links \cap Owners(Sender[m]) # {}
      BY <1>1, <2>1, <3>1, <3>3 DEF Places, LinksMessage
    <3>5. activityOf[m] = 0
      BY <2>1, <2>4 DEF MailInv, ActivitiesKnown
    <3>6. activityOf'[m] = id
      BY <1>3, <2>1, <3>4, <3>5, CommitRows
    <3> QED BY <2>2, <3>3, <3>4, <3>6
  <2>5. CASE m \in stored /\ Gives(t, Sender[m])
    <3>1. t.entity # None /\ prompts[t.prompt].target = Sender[m]
      BY <2>5 DEF Gives
    <3>2. /\ t.create \in {None, Sender[m]}
          /\ t.create = None => t.entity \in Owners(Sender[m])
          /\ Linked(t, m)
      BY <1>1, <2>1, <2>5, <3>1 DEF Places, LinksHistory
    <3>3. t.entity \in Owners(Sender[m])'
      <4>1. CASE t.create = None
        BY <2>3, <3>2, <4>1
      <4>2. CASE t.create = Sender[m] /\ t.create # None
        <5>1. t.entity \in Entities
          BY <1>1, <4>2 DEF Fits, Claimed
        <5> QED BY <1>2, <4>2, <5>1 DEF Owners
      <4> QED BY <3>2, <4>1, <4>2
    <3>4. CASE activityOf[m] # 0 /\ <<activityOf[m], t.entity>> \in t.link
      <4>1. activityOf[m] \in DOMAIN activities
        BY <2>1, <3>4 DEF MailInv, ActivitiesKnown
      <4>2. activityOf'[m] = activityOf[m] /\ t.entity \in activities'[activityOf[m]].links
        BY <2>1, <3>4, <4>1, CommitRows
      <4> QED BY <2>2, <3>3, <4>1, <4>2
    <3>5. CASE activityOf[m] = 0 /\ \E id \in DOMAIN activities :
                 <<m, id>> \in t.attach /\ t.entity \in activities[id].links
      <4>1. PICK id \in DOMAIN activities : <<m, id>> \in t.attach /\ t.entity \in activities[id].links
        BY <3>5
      <4>2. activityOf'[m] = id
        BY <1>3, <2>1, <3>5, <4>1, CommitRows
      <4> QED BY <2>2, <3>3, <4>1, <4>2
    <3> QED BY <1>3, <3>2, <3>4, <3>5 DEF Linked
  <2>6. CASE m \in stored /\ ~Gives(t, Sender[m])
    <3>1. Owners(Sender[m]) # {}
      <4>1. CASE t.create = None
        BY <1>2, <4>1 DEF Owners
      <4>2. CASE t.create # None
        <5>1. t.entity # None /\ t.create = prompts[t.prompt].target
          BY <1>7, <4>2
        <5>2. t.create # Sender[m]
          BY <2>6, <5>1 DEF Gives
        <5>3. PICK e \in Entities : primary'[e] = Sender[m] \/ <<e, Sender[m]>> \in extra'
          BY DEF Owners
        <5>4. primary[e] = Sender[m] \/ <<e, Sender[m]>> \in extra
          BY <1>2, <4>2, <5>2, <5>3
        <5> QED BY <5>4 DEF Owners
      <4> QED BY <4>1, <4>2
    <3>2. CASE OnTimeline(m)
      <4>1. activityOf[m] # 0 /\ activityOf[m] \in DOMAIN activities
        BY <3>2, ActivitiesNumbered DEF OnTimeline
      <4>2. activityOf'[m] = activityOf[m]
        BY <2>1, <4>1, CommitRows
      <4>3. activities[activityOf[m]].links \cap Owners(Sender[m])' # {}
        BY <2>3, <3>2 DEF OnTimeline
      <4> QED BY <2>2, <4>1, <4>2, <4>3
    <3>3. ASSUME NEW v \in Workers, Gives(work[v], Sender[m]), work[v].create = None
          PROVE  Gives(work[v], Sender[m])' /\ work'[v].create = None
      <4>1. v # w /\ work[v].prompt \in DOMAIN prompts
        BY <2>6, <3>3, KnowsPrompt DEF Gives
      <4> QED BY <1>6, <3>3, <4>1, NewSuggestions DEF Gives
    <3> QED BY <2>1, <2>6, <3>1, <3>2, <3>3 DEF MailInv, MailPlaced
  <2> QED BY <2>4, <2>5, <2>6
<1> QED BY <1>2, <1>4, <1>8, <1>9, NoWorkPlaces, MailStep

LEMMA MailRollback ==
  ASSUME SuggestInv, MailInv, NEW w \in Workers, Rollback(w)
  PROVE  MailInv'
<1> DEFINE t == work[w]
           aside == IF t.entity # None /\ t.create = None THEN MailOf(prompts[t.prompt].target)
                    ELSE {}
<1>1. Extends /\ Becomes(w, NoWork) /\ Note(aside)
  BY StatusExtends DEF Rollback
<1>2. ASSUME NEW m \in stored \ overlooked', Sender[m] # None, Gives(t, Sender[m]), t.create = None
      PROVE  FALSE
  <2>1. m \in aside
    BY <1>2 DEF Gives, MailOf, relevantEmails
  <2> HIDE DEF aside
  <2> QED BY <1>1, <1>2, <2>1, Noted
<1> HIDE DEF aside
<1> QED BY <1>1, <1>2, NoWorkPlaces, MailFrame

LEMMA MailInvNext ==
  ASSUME SuggestInv, MailInv, [Next]_vars
  PROVE  MailInv'
<1>1. CASE UNCHANGED vars
  <2>1. Extends /\ work' = work /\ prompts' = prompts /\ overlooked' = overlooked
    BY <1>1 DEF vars, Extends
  <2>2. ASSUME NEW v \in Workers PROVE Places(work[v])'
    <3>1. PICK t : t = work[v]
      OBVIOUS
    <3>2. Places(t) /\ (t.step = "create" \/ t.entity # None => t.prompt \in DOMAIN prompts)
      BY <3>1, KnowsPrompt DEF MailInv
    <3>3. Places(t)'
      BY <2>1, <3>2, ExtendsKeeps DEF Places
    <3> QED BY <2>1, <3>1, <3>3 DEF Places, LinksHistory, Linked, LinksMessage, OneActivity, About
  <2>3. Alone'
    BY <2>1 DEF MailInv, Alone, About
  <2>4. /\ ActivitiesKnown' /\ \A a : Owners(a)' = Owners(a)
        /\ \A m : OnTimeline(m) => OnTimeline(m)'
    BY <2>1 DEF Extends, MailInv, ActivitiesKnown, Owners, OnTimeline
  <2>5. \A v \in Workers : \A a : Gives(work[v], a) => Gives(work[v], a)'
    BY <2>1 DEF Gives
  <2>6. MailPlaced'
    BY <2>1, <2>4, <2>5 DEF MailInv, MailPlaced, Extends
  <2> QED BY <2>2, <2>3, <2>4, <2>6 DEF MailInv
<1> QED BY <1>1, MailSync, MailResolve, MailCommit, MailRollback DEF Next

\* Stored mail from an address that people have is on the timeline of one of
\* them, unless a listing's limit or a failed "Link" has left it aside, or two
\* units of work were about it at once (linkEmailToTimeline, linkHistoricalEmails).
THEOREM MailIsOnTimeline == Spec => []MailOnTimeline
<1>1. SuggestInv /\ MailInv => MailOnTimeline
  <2> SUFFICES ASSUME SuggestInv, MailInv, \A w \in Workers : work[w] = NoWork,
                      NEW m \in stored \ overlooked, Sender[m] # None, Owners(Sender[m]) # {}
               PROVE  /\ activityOf[m] # 0
                      /\ activities[activityOf[m]].links \cap Owners(Sender[m]) # {}
    BY DEF MailOnTimeline
  <2>1. ~Gives(NoWork, Sender[m])
    BY NoWorkPlaces
  <2>2. OnTimeline(m)
    BY <2>1, Zenon DEF MailInv, MailPlaced
  <2> QED BY <2>2, ActivitiesNumbered DEF OnTimeline
<1>2. SuggestInv /\ MailInv /\ [Next]_vars => MailInv'
  BY MailInvNext
<1> QED BY <1>1, <1>2, SuggestInvariant, MailInit, PTL DEF Spec
=============================================================================
