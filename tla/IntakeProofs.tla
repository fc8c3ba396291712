----------------------------- MODULE IntakeProofs -----------------------------
(***************************************************************************)
(* The two ways in which something comes into the CRM from outside: mail   *)
(* from the folders of an account, and people and companies from the pages *)
(* on which the browser extension works.  The modules share nothing.       *)
(*                                                                         *)
(* No mail is passed over, for every set of folders, messages and syncs at *)
(* once, every limit of a fetch, and every overlap that is at least as     *)
(* long as a sync of one folder.                                           *)
(*                                                                         *)
(* For every set of pages, of handlers that wait at once, and of rows: a   *)
(* person is added only after a look that found nobody with the address,   *)
(* an update goes to a record found for its page, and a save that is       *)
(* reported has linked every company that was read.                        *)
(***************************************************************************)
EXTENDS FolderSync, Capture, TLAPS

-----------------------------------------------------------------------------
(***************************************************************************)
(* Mail.                                                                   *)
(***************************************************************************)

\* In the mailbox, not stored, and not given up by any sync.
Pending == {m \in Messages : arrived[m] # 0 /\ m \notin stored \cup missed}

\* The cursors a sync read at its start are days that have been, and reach
\* whatever is pending, in the folders it has not come to yet as well.
CursorsReach(t) ==
  \A f \in Folders :
    /\ t.cursors[f] <= now
    /\ \A m \in Pending : FolderOf[m] = f => Reaches(t.cursors[f], arrived[m])

\* While a folder's messages are processed, what is pending in it is in the
\* batch or has come in since the search.
BatchAccounts(t) ==
  /\ t.since <= now
  /\ now <= t.since + MaxSync
  /\ \A m \in Pending : FolderOf[m] = t.folder => m \in t.batch \/ t.since <= arrived[m]

\* The new cursor reaches what is pending in its folder.
MarkReaches(t) ==
  /\ t.at <= now
  /\ \A m \in Pending : FolderOf[m] = t.folder => Reaches(t.at, arrived[m])

SyncInv(t) ==
  /\ t.step # "idle" => CursorsReach(t)
  /\ t.step = "messages" => BatchAccounts(t)
  /\ t.step = "mark" => MarkReaches(t)

\* The inductive invariant.  What a sync will write is already bound by what
\* it has read, so another sync's write in between takes nothing away.
PassInv ==
  /\ TypeOK
  /\ NothingPassedOver
  /\ \A s \in Syncs : SyncInv(sync[s])

-----------------------------------------------------------------------------
\* The initial state satisfies the invariant: no message has arrived.
LEMMA PassInit == Init => PassInv
BY FolderSyncAssumption
DEF Init, PassInv, TypeOK, NothingPassedOver, SyncInv, NoSync, Sync

\* A sync that only moves on, while the clock, the mailbox and the cursors
\* stay as they are and nothing becomes pending: its own record is all there
\* is to check.
LEMMA PassMove ==
  ASSUME PassInv, NEW s \in Syncs, NEW t \in Sync, Becomes(s, t),
         UNCHANGED <<now, arrived, cursor>>,
         stored \subseteq stored', missed \subseteq missed',
         stored' \subseteq Messages, missed' \subseteq Messages,
         SyncInv(t)'
  PROVE  PassInv'
<1>1. TypeOK'
  BY DEF PassInv, TypeOK, Becomes
<1>2. Pending' \subseteq Pending
  BY DEF Pending
<1>3. NothingPassedOver'
  BY DEF PassInv, NothingPassedOver, Reaches
<1>4. ASSUME NEW x \in Syncs PROVE SyncInv(sync[x])'
  <2>1. CASE x = s
    BY <2>1 DEF Becomes, PassInv, TypeOK, SyncInv, CursorsReach, BatchAccounts, MarkReaches
  <2>2. CASE x # s
    <3>1. sync'[x] = sync[x]
      BY <2>2 DEF Becomes, PassInv, TypeOK
    <3>2. SyncInv(sync[x])
      BY DEF PassInv
    <3> QED
      BY <1>2, <3>1, <3>2 DEF SyncInv, CursorsReach, BatchAccounts, MarkReaches, Reaches
  <2> QED BY <2>1, <2>2
<1> QED BY <1>1, <1>3, <1>4 DEF PassInv

\* A message that comes in does so today, on or after every day a cursor or a
\* search can be at.
LEMMA PassDeliver ==
  ASSUME PassInv, NEW m \in Messages, Deliver(m)
  PROVE  PassInv'
<1> USE FolderSyncAssumption
<1>1. TypeOK'
  BY DEF PassInv, TypeOK, Deliver
<1>2. arrived'[m] = now /\ \A n \in Messages \ {m} : arrived'[n] = arrived[n]
  BY DEF PassInv, TypeOK, Deliver
<1>3. Pending' \subseteq Pending \cup {m}
  BY <1>2 DEF Pending, Deliver
<1>4. ASSUME NEW n \in Messages, arrived'[n] # 0, n \notin stored \cup missed
      PROVE  Reaches(cursor[FolderOf[n]], arrived'[n])
  <2>1. cursor[FolderOf[n]] \in 0..now /\ now \in Nat
    BY DEF PassInv, TypeOK
  <2> QED BY <1>2, <1>4, <2>1 DEF PassInv, NothingPassedOver, Reaches
<1>5. ASSUME NEW x \in Syncs PROVE SyncInv(sync[x])'
  <2>1. sync' = sync /\ now' = now /\ sync[x] \in Sync /\ SyncInv(sync[x]) /\ now \in Nat
    BY DEF PassInv, TypeOK, Deliver
  <2>2. sync[x].step # "idle" => CursorsReach(sync[x])'
    BY <1>2, <1>3, <2>1 DEF SyncInv, CursorsReach, Reaches, Sync, Pending
  <2>3. sync[x].step = "messages" => BatchAccounts(sync[x])'
    BY <1>2, <1>3, <2>1 DEF SyncInv, BatchAccounts, Sync, Pending
  <2>4. sync[x].step = "mark" => MarkReaches(sync[x])'
    BY <1>2, <1>3, <2>1 DEF SyncInv, MarkReaches, Reaches, Sync, Pending
  <2> QED BY <2>1, <2>2, <2>3, <2>4 DEF SyncInv
<1>6. NothingPassedOver'
  BY <1>4 DEF NothingPassedOver, Deliver, Reaches
<1> QED BY <1>1, <1>5, <1>6 DEF PassInv

\* Midnight waits for the syncs that are on a folder.
LEMMA PassTick ==
  ASSUME PassInv, Tick
  PROVE  PassInv'
<1> USE FolderSyncAssumption
<1>1. TypeOK'
  BY DEF PassInv, TypeOK, Tick
<1>2. NothingPassedOver' /\ Pending' = Pending
  BY DEF PassInv, NothingPassedOver, Reaches, Tick, Pending
<1>3. ASSUME NEW x \in Syncs PROVE SyncInv(sync[x])'
  <2>1. /\ sync' = sync /\ now' = now + 1 /\ now \in Nat
        /\ sync[x] \in Sync /\ SyncInv(sync[x])
        /\ sync[x].step = "messages" => now < sync[x].since + MaxSync
        /\ arrived' = arrived
    BY DEF PassInv, TypeOK, Tick
  <2>2. sync[x].step # "idle" => CursorsReach(sync[x])'
    BY <1>2, <2>1 DEF SyncInv, CursorsReach, Reaches, Sync
  <2>3. sync[x].step = "messages" => BatchAccounts(sync[x])'
    BY <1>2, <2>1 DEF SyncInv, BatchAccounts, Sync
  <2>4. sync[x].step = "mark" => MarkReaches(sync[x])'
    BY <1>2, <2>1 DEF SyncInv, MarkReaches, Reaches, Sync
  <2> QED BY <2>1, <2>2, <2>3, <2>4 DEF SyncInv
<1> QED BY <1>1, <1>2, <1>3 DEF PassInv

\* The cursor is set to a day that reaches what is pending in its folder.
LEMMA PassMark ==
  ASSUME PassInv, NEW s \in Syncs, MarkEmailFolderSynced(s)
  PROVE  PassInv'
<1>1. /\ sync[s] \in Sync /\ sync[s].step = "mark" /\ SyncInv(sync[s])
      /\ now \in Nat
  BY DEF PassInv, TypeOK, MarkEmailFolderSynced
<1>2. PICK t \in Sync : t = [sync[s] EXCEPT !.step = "folders"]
  BY <1>1 DEF Sync
<1>3. /\ t.step = "folders" /\ t.cursors = sync[s].cursors
      /\ Becomes(s, t) /\ UNCHANGED <<now, arrived, stored, missed>>
  BY <1>1, <1>2 DEF MarkEmailFolderSynced, Sync
<1>4. Pending' = Pending
  BY <1>3 DEF Pending
<1>5. SyncInv(t) /\ SyncInv(t)'
  BY <1>1, <1>3, <1>4 DEF SyncInv, CursorsReach, Reaches
<1>6. CASE UNCHANGED cursor
  BY <1>3, <1>5, <1>6, PassMove DEF PassInv, TypeOK
<1>7. CASE cursor' = [cursor EXCEPT ![sync[s].folder] = sync[s].at]
  <2>1. sync[s].at \in 0..now /\ sync[s].folder \in Folders /\ MarkReaches(sync[s])
    BY <1>1 DEF SyncInv, MarkReaches, Sync
  <2>2. cursor'[sync[s].folder] = sync[s].at
        /\ \A f \in Folders \ {sync[s].folder} : cursor'[f] = cursor[f]
    BY <1>7, <2>1 DEF PassInv, TypeOK
  <2>3. TypeOK'
    BY <1>3, <1>7, <2>1 DEF PassInv, TypeOK, Becomes
  <2>4. NothingPassedOver'
    BY <1>3, <2>1, <2>2, FolderSyncAssumption
    DEF PassInv, NothingPassedOver, MarkReaches, Pending, Reaches
  <2>5. ASSUME NEW x \in Syncs PROVE SyncInv(sync[x])'
    <3>1. sync'[x] = IF x = s THEN t ELSE sync[x]
      BY <1>3 DEF Becomes, PassInv, TypeOK
    <3>2. SyncInv(sync[x])
      BY DEF PassInv
    <3> QED
      BY <1>3, <1>4, <1>5, <3>1, <3>2
      DEF SyncInv, CursorsReach, BatchAccounts, MarkReaches, Reaches
  <2> QED BY <2>3, <2>4, <2>5 DEF PassInv
<1> QED BY <1>6, <1>7 DEF MarkEmailFolderSynced

\* Every step keeps the invariant.
LEMMA PassStep == PassInv /\ [Next]_vars => PassInv'
<1> SUFFICES ASSUME PassInv, [Next]_vars PROVE PassInv'
  OBVIOUS
<1> USE FolderSyncAssumption
<1>t. /\ sync \in [Syncs -> Sync] /\ now \in Nat
      /\ arrived \in [Messages -> 0..now] /\ cursor \in [Folders -> 0..now]
      /\ stored \subseteq Messages /\ missed \subseteq Messages
  BY DEF PassInv, TypeOK
<1>n. NoSync \in Sync /\ NoSync.step = "idle"
  BY DEF NoSync, Sync
<1>1. ASSUME NEW m \in Messages, Deliver(m) PROVE PassInv'
  BY <1>1, PassDeliver
<1>2. CASE Tick
  BY <1>2, PassTick
<1>3. ASSUME NEW s \in Syncs, StartSync(s) PROVE PassInv'
  <2> PICK todo \in {Folders} \cup (IF Faults THEN {{Inbox}} ELSE {}) :
        Becomes(s, [NoSync EXCEPT !.step = "folders", !.cursors = cursor, !.todo = todo])
    BY <1>3 DEF StartSync
  <2>0. todo \subseteq Folders /\ cursor \in [Folders -> Nat]
    BY <1>t
  <2> PICK t \in Sync :
        t = [NoSync EXCEPT !.step = "folders", !.cursors = cursor, !.todo = todo]
    BY <2>0 DEF NoSync, Sync
  <2>1. t.step = "folders" /\ t.cursors = cursor
    BY DEF NoSync
  <2>2. UNCHANGED <<now, arrived, stored, cursor, missed>>
    BY <1>3 DEF StartSync
  <2>3. CursorsReach(t)'
    BY <1>t, <2>1, <2>2 DEF CursorsReach, PassInv, NothingPassedOver, Pending, Reaches
  <2> QED BY <1>t, <2>1, <2>2, <2>3, PassMove DEF SyncInv
<1>4. ASSUME NEW s \in Syncs, NEW f \in Folders, FetchNewMessages(s, f) PROVE PassInv'
  <2> DEFINE found == Found(f, sync[s].cursors[f])
  <2> PICK batch \in SUBSET found :
        /\ missed' = missed \cup (found \ batch)
        /\ Becomes(s, [sync[s] EXCEPT !.step = "messages", !.todo = @ \ {f}, !.folder = f,
                                      !.since = now, !.batch = batch])
    BY <1>4 DEF FetchNewMessages
  <2> PICK t \in Sync : t = [sync[s] EXCEPT !.step = "messages", !.todo = @ \ {f},
                                            !.folder = f, !.since = now, !.batch = batch]
    BY ZenonT(60), <1>t DEF Sync, Found
  <2>1. /\ t.step = "messages" /\ t.cursors = sync[s].cursors
        /\ t.folder = f /\ t.since = now /\ t.batch = batch
    BY <1>t DEF Sync, Found
  <2>2. UNCHANGED <<now, arrived, stored, cursor>> /\ sync[s].step = "folders"
    BY <1>4 DEF FetchNewMessages
  <2>3. Becomes(s, t)
    OBVIOUS
  <2>4. found \subseteq Messages /\ missed' \subseteq Messages
    BY <1>t DEF Found
  <2>5. CursorsReach(sync[s])
    BY <2>2 DEF PassInv, SyncInv
  <2>6. CursorsReach(t)'
    BY <2>1, <2>2, <2>5 DEF CursorsReach, Reaches, Pending
  <2>7. ASSUME NEW m \in Pending', FolderOf[m] = f PROVE m \in batch
    <3>1. m \in found
      BY <2>2, <2>5, <2>7 DEF CursorsReach, Pending, Found
    <3> QED BY <2>7, <3>1 DEF Pending
  <2>8. BatchAccounts(t)'
    BY <1>t, <2>1, <2>2, <2>7 DEF BatchAccounts
  <2> QED BY <1>t, <2>1, <2>2, <2>3, <2>4, <2>6, <2>8, PassMove DEF SyncInv
<1>5. ASSUME NEW s \in Syncs, NEW m \in Messages, processFetchedMessage(s, m)
      PROVE PassInv'
  <2> PICK t \in Sync : t = [sync[s] EXCEPT !.batch = @ \ {m}]
    BY <1>t DEF Sync
  <2>1. /\ t.step = "messages" /\ t.cursors = sync[s].cursors
        /\ t.folder = sync[s].folder /\ t.since = sync[s].since
        /\ t.batch = sync[s].batch \ {m}
    BY <1>5, <1>t DEF Sync, processFetchedMessage
  <2>2. /\ Becomes(s, t) /\ UNCHANGED <<now, arrived, cursor>>
        /\ \/ stored' = stored \cup {m} /\ UNCHANGED missed
           \/ missed' = missed \cup {m} /\ UNCHANGED stored
        /\ sync[s].step = "messages"
    BY <1>5 DEF processFetchedMessage
  <2>3. Pending' = Pending \ {m}
    BY <2>2 DEF Pending
  <2>4. CursorsReach(sync[s]) /\ BatchAccounts(sync[s])
    BY <2>2 DEF PassInv, SyncInv
  <2>5. CursorsReach(t)' /\ BatchAccounts(t)'
    BY <2>1, <2>2, <2>3, <2>4 DEF CursorsReach, BatchAccounts, Reaches
  <2> QED BY <1>t, <2>1, <2>2, <2>5, PassMove DEF SyncInv
<1>6. ASSUME NEW s \in Syncs, FolderDone(s) PROVE PassInv'
  <2> PICK t \in Sync : t = [sync[s] EXCEPT !.step = "mark", !.at = now]
    BY <1>t DEF Sync
  <2>1. /\ t.step = "mark" /\ t.cursors = sync[s].cursors
        /\ t.folder = sync[s].folder /\ t.at = now
    BY <1>t DEF Sync
  <2>2. /\ Becomes(s, t) /\ UNCHANGED <<now, arrived, stored, cursor, missed>>
        /\ sync[s].step = "messages" /\ sync[s].batch = {} /\ sync[s] \in Sync
    BY <1>6, <1>t DEF FolderDone
  <2>3. CursorsReach(sync[s]) /\ BatchAccounts(sync[s]) /\ Pending' = Pending
    BY <2>2 DEF PassInv, SyncInv, Pending
  <2>4. CursorsReach(t)'
    BY <2>1, <2>2, <2>3 DEF CursorsReach, Reaches
  <2>5. ASSUME NEW m \in Pending, FolderOf[m] = sync[s].folder
        PROVE  now <= arrived[m] + Overlap
    <3>1. sync[s].since <= arrived[m] /\ now <= sync[s].since + MaxSync
      BY <2>2, <2>3, <2>5 DEF BatchAccounts
    <3>2. sync[s].since \in Nat /\ arrived[m] \in Nat
      BY <1>t, <2>2 DEF Sync, Pending
    <3> QED BY <1>t, <3>1, <3>2
  <2>6. MarkReaches(t)'
    BY <1>t, <2>1, <2>2, <2>3, <2>5 DEF MarkReaches, Reaches
  <2> QED BY <1>t, <2>1, <2>2, <2>4, <2>6, PassMove DEF SyncInv
<1>7. ASSUME NEW s \in Syncs, MarkEmailFolderSynced(s) PROVE PassInv'
  BY <1>7, PassMark
<1>8. ASSUME NEW s \in Syncs, MarkEmailAccountSynced(s) \/ Abandon(s) PROVE PassInv'
  <2>1. Becomes(s, NoSync) /\ UNCHANGED <<now, arrived, stored, cursor, missed>>
    BY <1>8 DEF MarkEmailAccountSynced, Abandon
  <2>2. SyncInv(NoSync)'
    BY <1>n DEF SyncInv
  <2> QED BY <1>n, <1>t, <2>1, <2>2, PassMove
<1>9. ASSUME NEW s \in Syncs, NEW f \in Folders, FetchFails(s, f) PROVE PassInv'
  <2> PICK t \in Sync : t = [sync[s] EXCEPT !.todo = @ \ {f}]
    BY <1>t DEF Sync
  <2>1. t.step = sync[s].step /\ t.cursors = sync[s].cursors
    BY <1>t DEF Sync
  <2>2. /\ Becomes(s, t) /\ UNCHANGED <<now, arrived, stored, cursor, missed>>
        /\ sync[s].step = "folders"
    BY <1>9 DEF FetchFails
  <2>3. CursorsReach(sync[s]) /\ Pending' = Pending
    BY <2>2 DEF PassInv, SyncInv, Pending
  <2>4. CursorsReach(t)'
    BY <2>1, <2>2, <2>3 DEF CursorsReach, Reaches
  <2> QED BY <1>t, <2>1, <2>2, <2>4, PassMove DEF SyncInv
<1>10. CASE UNCHANGED vars
  BY <1>10 DEF vars, PassInv, TypeOK, NothingPassedOver, SyncInv, CursorsReach,
     BatchAccounts, MarkReaches, Pending, Reaches
<1> QED
  BY <1>1, <1>2, <1>3, <1>4, <1>5, <1>6, <1>7, <1>8, <1>9, <1>10 DEF Next, Advance

\* A message in the mailbox that is not stored, and that no sync has seen and
\* given up, is within reach of the cursor of its folder: SyncAccounts never
\* moves a cursor past mail it has not looked at, whatever runs at once.
THEOREM NoMailPassedOver == Spec => []NothingPassedOver
<1>1. PassInv => NothingPassedOver
  BY DEF PassInv
<1> QED BY <1>1, PassInit, PassStep, PTL DEF Spec

-----------------------------------------------------------------------------
(***************************************************************************)
(* The extension.  Its invariant says what the handlers under way and the  *)
(* button may hold, and that all of it is about one page until the address *)
(* changes under a handler.                                                *)
(***************************************************************************)
Statuses == {"idle", "loading", "ready", "saving", "saved", "exists", "error"}
Data == [url : Pages, of : Pages \cup {Feed}]
Saves == {"capture", "update", "link"}

\* The addresses rows may have.
Known == Pages \cup Newcomers
Person == [url : Known, name : {NameOf[d] : d \in Known \cup {Feed}}]

\* What the script knows has the fields of its state.
IsUi(u) ==
  u \in [status : Statuses, record : {u.record}, data : Data \cup {None},
         about : Pages \cup {None}, seen : SUBSET Known]

\* A handler has the fields of what it does.
IsCheck(c) ==
  c \in [kind : {"check"}, step : {"url", "name", "done"}, page : Pages,
         data : Data \cup {None}, found : {c.found}, seen : SUBSET Known]
IsWaiting(c) ==
  c \in [kind : Saves, step : {"scroll"}, record : {c.record}, about : Pages \cup {None},
         seen : SUBSET Known]
IsSave(c) ==
  /\ c \in [kind : Saves, data : Data, seen : SUBSET Known, about : Pages \cup {None},
            step : {"post", "put", "find", "make", "link", "remember", "done"},
            record : {c.record}, prev : Statuses, todo : {c.todo}, company : {c.company}]
  /\ c.step = "post" => c.kind = "capture"

\* What may be under way in a slot.
IsCall(c) == IsCheck(c) \/ IsWaiting(c) \/ IsSave(c)

\* The check, or the check before the click on "Add", found nobody with the
\* address it looked for; passing says which statuses updates have noted.
Looked(c, passing) ==
  /\ c.kind = "check" => c.page \notin c.seen
  /\ c.kind = "capture" /\ "ready" \notin passing => c.about # None /\ c.about \notin c.seen
  /\ c.kind \in Saves /\ c.step # "scroll" /\ "ready" \notin passing => c.prev # "ready"

\* A handler is about page p.
CallOf(c, p) ==
  /\ c.kind = "check" => c.page = p /\ (c.data # None => c.data.url = p)
  /\ c.kind \in Saves =>
       /\ c.about \in {None, p}
       /\ c.step # "scroll" => c.data.url = p /\ (c.kind = "update" => c.about = p)

\* What the script knows is about page p.
UiOf(p) ==
  /\ page \in Pages => page = p
  /\ ui.about \in {None, p}
  /\ ui.record # None => ui.about = p
  /\ ui.data # None => ui.data.url = p

(***************************************************************************)
(* Every handler has the fields of its step and keeps what its look found; *)
(* "Add" is on offer only after such a look; and as long as the address    *)
(* did not change under a handler, the button and all handlers are about   *)
(* one page.                                                               *)
(***************************************************************************)
TabInv ==
  /\ page \in Pages \cup {Feed} /\ drawn \in Pages \cup {Feed}
  /\ people \in Seq(Person)
  /\ IsUi(ui)
  /\ calls = [s \in Slots |-> calls[s]]
  /\ \A s \in Slots : calls[s] = Free \/ (IsCall(calls[s]) /\ Looked(calls[s], stranded))
  /\ ui.status = "ready" /\ "ready" \notin stranded =>
       ui.about # None /\ ui.about \notin ui.seen
  /\ ~crossed => \E p \in Pages : UiOf(p) /\ \A s \in Flows : CallOf(calls[s], p)

\* A handler goes on as c, or is over.
LEMMA Goes ==
  ASSUME TabInv, NEW s \in Slots, NEW c, calls' = [calls EXCEPT ![s] = c],
         c = Free \/ (IsCall(c) /\ Looked(c, stranded')),
         UNCHANGED <<page, drawn>>, IsUi(ui'),
         people' \in Seq(Person),
         stranded \subseteq stranded',
         ui'.status = "ready" /\ "ready" \notin stranded' =>
           ui'.about # None /\ ui'.about \notin ui'.seen,
         ~crossed' => ~crossed,
         \A p \in Pages :
           ~crossed' /\ UiOf(p) /\ (\A t \in Flows : CallOf(calls[t], p))
             => UiOf(p)' /\ (c = Free \/ CallOf(c, p))
  PROVE  TabInv'
<1>1. calls' = [t \in Slots |-> calls'[t]] /\ calls'[s] = c /\ \A t \in Slots \ {s} : calls'[t] = calls[t]
  BY DEF TabInv
<1>2. \A t \in Slots : calls'[t] = Free \/ (IsCall(calls'[t]) /\ Looked(calls'[t], stranded'))
  BY <1>1 DEF TabInv, Looked
<1>3. ASSUME ~crossed'
      PROVE  \E p \in Pages : UiOf(p)' /\ \A t \in Flows' : CallOf(calls'[t], p)
  <2>1. PICK p \in Pages : UiOf(p) /\ \A t \in Flows : CallOf(calls[t], p)
    BY <1>3 DEF TabInv
  <2>2. UiOf(p)' /\ (c = Free \/ CallOf(c, p))
    BY <1>3, <2>1
  <2>3. ASSUME NEW t \in Flows' PROVE CallOf(calls'[t], p)
    <3>1. CASE t = s
      BY <1>1, <2>2, <2>3, <3>1 DEF Flows, Free
    <3>2. CASE t # s
      BY <1>1, <2>1, <2>3, <3>2 DEF Flows
    <3> QED BY <3>1, <3>2
  <2> QED BY <2>2, <2>3
<1> QED BY <1>1, <1>2, <1>3 DEF TabInv

\* What is scraped is about the page, and so is what was scraped before.
LEMMA Scraped ==
  ASSUME TabInv
  PROVE  /\ scrapeCurrentPage \in Data \cup {None} /\ FreshData \in Data \cup {None}
         /\ \A p \in Pages : UiOf(p) /\ scrapeCurrentPage # None => scrapeCurrentPage.url = p
         /\ \A p \in Pages : UiOf(p) /\ FreshData # None => FreshData.url = p
<1>1. IsPerson(page) \/ page \in Firms => page \in Pages
  BY DEF IsPerson, Pages
<1>2. scrapeCurrentPage = None \/ (page \in Pages /\ scrapeCurrentPage = [url |-> page, of |-> drawn])
  BY <1>1 DEF scrapeCurrentPage
<1> QED BY <1>2 DEF TabInv, IsUi, Data, UiOf, FreshData

\* With its data a save sends, or gives up.
LEMMA Sends ==
  ASSUME TabInv, NEW s \in Slots, NEW c, NEW data \in Data \cup {None}, Send(s, c, data),
         c.kind \in Saves, c.about \in Pages \cup {None}, c.seen \subseteq Known,
         c.kind = "capture" /\ "ready" \notin stranded => c.about # None /\ c.about \notin c.seen,
         UNCHANGED <<page, drawn, people>>, ~crossed' => ~crossed,
         \A p \in Pages : UiOf(p) /\ (\A t \in Flows : CallOf(calls[t], p)) =>
           c.about \in {None, p} /\ (data # None => data.url = p)
  PROVE  TabInv'
<1>1. CASE data = None
  <2>1. calls' = [calls EXCEPT ![s] = Free] /\ UNCHANGED <<ui, stranded>>
    BY <1>1 DEF Send
  <2> QED BY <2>1, Goes DEF TabInv, UiOf
<1>2. CASE data # None /\ c.kind = "update" /\ ui.record = None
  <2>1. /\ calls' = [calls EXCEPT ![s] = Free] /\ UNCHANGED stranded
        /\ ui' = [ui EXCEPT !.data = data]
    BY <1>2 DEF Send
  <2>2. /\ IsUi(ui') /\ ui'.status = ui.status /\ ui'.about = ui.about /\ ui'.seen = ui.seen
        /\ ui'.record = ui.record /\ ui'.data = data
    BY <2>1 DEF TabInv, IsUi
  <2>3. \A p \in Pages : UiOf(p) /\ (\A t \in Flows : CallOf(calls[t], p)) => UiOf(p)'
    BY <1>2, <2>2 DEF UiOf
  <2> QED BY <2>1, <2>2, <2>3, Goes DEF TabInv
<1>3. CASE data # None /\ ~(c.kind = "update" /\ ui.record = None)
  <2>1. PICK new :
          new = [kind |-> c.kind, step |-> IF c.kind = "capture" THEN "post" ELSE "put",
                 data |-> data, seen |-> c.seen,
                 about |-> IF c.kind = "update" THEN ui.about ELSE c.about,
                 record |-> IF c.kind = "update" THEN ui.record ELSE c.record,
                 prev |-> IF c.kind = "update" THEN ui.status ELSE "error",
                 todo |-> Experiences(data), company |-> 0]
    OBVIOUS
  <2>2. /\ calls' = [calls EXCEPT ![s] = new]
        /\ ui' = [ui EXCEPT !.status = "saving", !.data = data]
        /\ stranded' = IF c.kind = "update" THEN stranded \cup ({ui.status} \cap Passing) ELSE stranded
    BY <1>3, <2>1 DEF Send
  <2>3. /\ IsUi(ui') /\ ui'.status = "saving" /\ ui'.about = ui.about /\ ui'.seen = ui.seen
        /\ ui'.record = ui.record /\ ui'.data = data
    BY <1>3, <2>2 DEF TabInv, IsUi, Statuses
  <2>4. IsSave(new)
    BY <1>3, <2>1 DEF TabInv, IsUi, IsSave, Saves, Statuses
  <2>5. Looked(new, stranded')
    BY <2>1, <2>2 DEF Looked, Saves, Passing
  <2>6. ASSUME NEW p \in Pages, UiOf(p), \A t \in Flows : CallOf(calls[t], p)
        PROVE  UiOf(p)' /\ CallOf(new, p)
    BY <1>3, <2>1, <2>3, <2>6 DEF UiOf, CallOf, Saves
  <2> HIDE <2>1
  <2> QED BY <2>2, <2>3, <2>4, <2>5, <2>6, Goes DEF TabInv, IsCall
<1> QED BY <1>1, <1>2, <1>3

\* A click on "Add", "Update" or a record of the panel.
LEMMA SaveKeeps ==
  ASSUME TabInv, NEW s \in FreeSlots, NEW kind \in Saves, NEW r, Save(s, Waiting(kind, r)),
         UNCHANGED <<page, drawn, people>>,
         kind = "capture" => ui.status = "ready"
  PROVE  TabInv'
<1>1. PICK c : c = Waiting(kind, r)
  OBVIOUS
<1>2. PICK data : data = FreshData
  OBVIOUS
<1>3. IsWaiting(c) /\ c.kind = kind /\ c.about = ui.about /\ c.seen = ui.seen /\ c.step = "scroll"
  BY <1>1 DEF Waiting, IsWaiting, TabInv, IsUi
<1>4. s \in Slots /\ (~crossed' => ~crossed)
  BY DEF FreeSlots, Save
<1>5. kind = "capture" /\ "ready" \notin stranded => c.about # None /\ c.about \notin c.seen
  BY <1>3 DEF TabInv
<1>6. CASE ScrapesTwice
  <2>1. calls' = [calls EXCEPT ![s] = c] /\ UNCHANGED <<ui, stranded>>
    BY <1>1, <1>6 DEF Save
  <2>2. Looked(c, stranded')
    BY <1>3, <1>5, <2>1 DEF Looked, Saves
  <2>3. ASSUME NEW p \in Pages, UiOf(p) PROVE UiOf(p)' /\ CallOf(c, p)
    BY <1>3, <2>1, <2>3 DEF UiOf, CallOf, Saves
  <2> QED BY <1>3, <1>4, <2>1, <2>2, <2>3, Goes DEF TabInv, IsCall
<1>7. CASE ~ScrapesTwice
  <2>1. Send(s, c, data)
    BY <1>1, <1>2, <1>7 DEF Save
  <2>2. data \in Data \cup {None} /\ \A p \in Pages : UiOf(p) /\ data # None => data.url = p
    BY <1>2, Scraped
  <2>3. \A p \in Pages : UiOf(p) => c.about \in {None, p}
    BY <1>3 DEF UiOf
  <2> QED BY <1>3, <1>4, <1>5, <2>1, <2>2, <2>3, Sends DEF IsWaiting
<1> QED BY <1>6, <1>7

\* The page is read a second time.
LEMMA ScrapeAgainKeeps ==
  ASSUME TabInv, NEW s \in Slots, ScrapeAgain(s)
  PROVE  TabInv'
<1>1. PICK c : c = calls[s]
  OBVIOUS
<1>2. PICK data : data = FreshData
  OBVIOUS
<1>3. IsWaiting(c) /\ c.step = "scroll" /\ Looked(c, stranded) /\ s \in Flows
  BY <1>1 DEF ScrapeAgain, TabInv, IsCall, IsCheck, IsSave, Free, Flows, IsWaiting
<1>4. Send(s, c, data) /\ UNCHANGED <<page, drawn, people>> /\ (~crossed' => ~crossed)
  BY <1>1, <1>2 DEF ScrapeAgain, crm
<1>5. data \in Data \cup {None} /\ \A p \in Pages : UiOf(p) /\ data # None => data.url = p
  BY <1>2, Scraped
<1>6. \A p \in Pages : (\A t \in Flows : CallOf(calls[t], p)) => c.about \in {None, p}
  BY <1>1, <1>3 DEF CallOf, IsWaiting
<1> QED BY <1>3, <1>4, <1>5, <1>6, Sends DEF IsWaiting, Looked

\* The script looks a page up.
LEMMA CheckKeeps ==
  ASSUME TabInv, NEW s \in FreeSlots, checkExisting(s), page \in Pages,
         UNCHANGED <<page, drawn, people, stranded>>
  PROVE  TabInv'
<1>1. PICK c : c = [kind |-> "check", step |-> "url", page |-> page, data |-> scrapeCurrentPage,
                    found |-> None, seen |-> {}]
  OBVIOUS
<1>2. /\ calls' = [calls EXCEPT ![s] = c] /\ ui' = [ui EXCEPT !.status = "loading"]
      /\ s \in Slots /\ (~crossed' => ~crossed)
  BY <1>1 DEF checkExisting, FreeSlots
<1>3. IsCheck(c) /\ c.seen = {} /\ c.page = page /\ c.kind = "check"
      /\ \A p \in Pages : UiOf(p) /\ c.data # None => c.data.url = p
  BY <1>1, Scraped DEF IsCheck
<1>4. /\ IsUi(ui') /\ ui'.status = "loading" /\ ui'.about = ui.about /\ ui'.record = ui.record
      /\ ui'.data = ui.data
  BY <1>2 DEF TabInv, IsUi, Statuses
<1>5. \A p \in Pages : UiOf(p) => UiOf(p)' /\ CallOf(c, p)
  BY <1>3, <1>4 DEF UiOf, CallOf, Saves
<1>6. Looked(c, stranded')
  BY <1>3 DEF Looked, Saves
<1> QED BY <1>2, <1>3, <1>4, <1>5, <1>6, Goes DEF TabInv, IsCall

-----------------------------------------------------------------------------
\* In the background a handler keeps what it was started with.
Keeps(c, d) ==
  /\ d.kind = c.kind /\ d.data = c.data /\ d.seen = c.seen
  /\ c.kind = "check" => d.page = c.page
  /\ c.kind \in Saves => c.step # "scroll" /\ d.about = c.about /\ d.prev = c.prev

\* A handler that keeps what it was started with goes on.
LEMMA Advances ==
  ASSUME TabInv, NEW s \in Flows, NEW c, calls' = [calls EXCEPT ![s] = c],
         IsCall(c), Keeps(calls[s], c), UNCHANGED <<tab, ghosts>>, people' \in Seq(Person)
  PROVE  TabInv'
<1>1. IsCall(calls[s]) /\ Looked(calls[s], stranded) /\ s \in Slots
  BY DEF Flows, TabInv, Free
<1>2. UNCHANGED <<page, drawn, ui, stranded, crossed>>
  BY DEF tab, ghosts
<1>3. Looked(c, stranded')
  BY <1>1, <1>2 DEF Looked, Keeps, Saves
<1>4. \A p \in Pages : CallOf(calls[s], p) => CallOf(c, p)
  BY <1>1 DEF CallOf, Keeps, Saves
<1>5. \A p \in Pages : UiOf(p) => UiOf(p)'
  BY <1>2 DEF UiOf
<1> QED BY <1>1, <1>2, <1>3, <1>4, <1>5, Goes DEF TabInv

\* The fields of a handler in the background, whichever it gets on to.
LEMMA InBackground ==
  ASSUME TabInv, NEW s \in Slots, NEW steps, Background(s, steps), "scroll" \notin steps
  PROVE  s \in Flows /\ (IsCheck(calls[s]) \/ IsSave(calls[s])) /\ calls[s].step \in steps
BY DEF Background, TabInv, IsCall, IsWaiting, Flows, Free

\* What is written into the CRM for a person is a row.
LEMMA PersonTyped ==
  ASSUME TabInv, NEW data \in Data, IsPerson(data.url)
  PROVE  Row(data) \in Person
BY DEF Row, Person, Data, Known

\* A step of a check looks for the address, or for the name.  It notes who has
\* an address if nobody has the page's, and else finds what it finds.
LEMMA ChecksWrite ==
  ASSUME TabInv, NEW s \in Slots, NEW old, old = calls[s],
         findPersonByLinkedInUrl(s) \/ findPersonByName(s) \/ findCompanyByName(s)
  PROVE  /\ s \in Flows /\ IsCheck(old) /\ UNCHANGED <<tab, crm, ghosts>>
         /\ \E new : /\ calls' = [calls EXCEPT ![s] = new] /\ IsCheck(new)
                     /\ new.page = old.page /\ new.data = old.data
                     /\ \/ new.seen = old.seen
                        \/ new.seen = Addresses /\ old.page \notin Addresses
<1>1. s \in Flows /\ IsCheck(old) /\ UNCHANGED <<tab, crm, ghosts>>
  BY InBackground DEF findPersonByLinkedInUrl, findPersonByName, findCompanyByName,
       Background, TabInv, IsCall, IsWaiting, IsSave, Flows, Free
<1>2. ASSUME NEW new, calls' = [calls EXCEPT ![s] = new], IsCheck(new),
             new.page = old.page, new.data = old.data,
             new.seen = old.seen \/ (new.seen = Addresses /\ old.page \notin Addresses)
      PROVE  \E x : /\ calls' = [calls EXCEPT ![s] = x] /\ IsCheck(x)
                   /\ x.page = old.page /\ x.data = old.data
                   /\ \/ x.seen = old.seen
                      \/ x.seen = Addresses /\ old.page \notin Addresses
  BY <1>2
<1>3. CASE \E r : AnswerCheck(s, r)
  <2>1. PICK r : AnswerCheck(s, r)
    BY <1>3
  <2>2. PICK new : new = [old EXCEPT !.step = "done", !.found = r]
    OBVIOUS
  <2>3. calls' = [calls EXCEPT ![s] = new]
    BY <1>1, <2>1, <2>2 DEF AnswerCheck, TabInv, IsCheck
  <2>4. IsCheck(new) /\ new.page = old.page /\ new.data = old.data /\ new.seen = old.seen
    BY <1>1, <2>2 DEF IsCheck
  <2> QED BY <1>1, <1>2, <2>3, <2>4
<1>4. CASE Goto(s, "done")
  <2>1. PICK new : new = [old EXCEPT !.step = "done"]
    OBVIOUS
  <2>2. calls' = [calls EXCEPT ![s] = new]
    BY <1>1, <1>4, <2>1 DEF Goto, TabInv, IsCheck
  <2>3. IsCheck(new) /\ new.page = old.page /\ new.data = old.data /\ new.seen = old.seen
    BY <1>1, <2>1 DEF IsCheck
  <2> QED BY <1>1, <1>2, <2>2, <2>3
<1>5. CASE findPersonByName(s) \/ findCompanyByName(s)
  <2>1. Goto(s, "done") \/ \E r : AnswerCheck(s, r)
    <3>1. CASE findPersonByName(s)
      BY <3>1 DEF findPersonByName
    <3>2. CASE findCompanyByName(s)
      BY <3>2 DEF findCompanyByName
    <3> QED BY <1>5, <3>1, <3>2
  <2> QED BY <1>3, <1>4, <2>1
<1>6. CASE findPersonByLinkedInUrl(s)
  <2> DEFINE hits == {i \in DOMAIN people : people[i].url = old.page}
  <2>1. CASE hits # {}
    <3>1. PICK i \in hits : AnswerCheck(s, [type |-> "person", id |-> i])
      BY <1>6, <2>1 DEF findPersonByLinkedInUrl
    <3> QED BY <1>3, <3>1
  <2>2. CASE hits = {}
    <3>1. PICK step, seen : /\ step \in {"done", "name"} /\ seen = Addresses
                            /\ calls' = [calls EXCEPT ![s].step = step, ![s].seen = seen]
      BY <1>6, <2>2 DEF findPersonByLinkedInUrl
    <3>2. PICK new : new = [old EXCEPT !.step = step, !.seen = seen]
      OBVIOUS
    <3>3. calls' = [calls EXCEPT ![s] = new]
      BY <1>1, <3>1, <3>2 DEF TabInv, IsCheck
    <3>4. seen \subseteq Known /\ old.page \notin Addresses
      <4>1. \A i \in DOMAIN people : people[i] \in Person
        BY DEF TabInv
      <4> QED BY <2>2, <3>1, <4>1 DEF Addresses, Person
    <3>5. IsCheck(new) /\ new.page = old.page /\ new.data = old.data /\ new.seen = seen
      <4>1. step \in {"url", "name", "done"}
        BY <3>1
      <4> QED BY <1>1, <3>2, <3>4, <4>1 DEF IsCheck
    <3> QED BY <1>1, <1>2, <3>1, <3>3, <3>4, <3>5
  <2> QED BY <2>1, <2>2
<1> QED BY <1>5, <1>6

\* A step of a check.
LEMMA ChecksKeep ==
  ASSUME TabInv, NEW s \in Slots,
         findPersonByLinkedInUrl(s) \/ findPersonByName(s) \/ findCompanyByName(s)
  PROVE  TabInv'
<1>1. PICK old : old = calls[s]
  OBVIOUS
<1>2. s \in Flows /\ IsCheck(old) /\ UNCHANGED <<tab, crm, ghosts>>
  BY <1>1, ChecksWrite
<1>3. PICK new : /\ calls' = [calls EXCEPT ![s] = new] /\ IsCheck(new)
                 /\ new.page = old.page /\ new.data = old.data
                 /\ \/ new.seen = old.seen
                    \/ new.seen = Addresses /\ old.page \notin Addresses
  BY <1>1, ChecksWrite
<1>4. UNCHANGED <<page, drawn, ui, stranded, crossed, people>>
  BY <1>2 DEF tab, ghosts, crm
<1>5. Looked(new, stranded')
  <2>1. Looked(old, stranded)
    BY <1>1, <1>2 DEF TabInv, Flows, Free
  <2> QED BY <1>2, <1>3, <2>1 DEF Looked, IsCheck, Saves
<1>6. \A p \in Pages : CallOf(old, p) => CallOf(new, p)
  BY <1>2, <1>3 DEF CallOf, IsCheck, Saves
<1>7. \A p \in Pages : UiOf(p) => UiOf(p)'
  BY <1>4 DEF UiOf
<1> QED BY <1>1, <1>2, <1>3, <1>4, <1>5, <1>6, <1>7, Goes DEF TabInv, IsCall

-----------------------------------------------------------------------------
\* A save goes on: the step, the record, the companies left and the company.
On(c, step, record, todo, company) ==
  [c EXCEPT !.step = step, !.record = record, !.todo = todo, !.company = company]

\* The steps a save may go on to.
Later == {"put", "find", "make", "link", "remember", "done"}

\* Everything else of the save stays.
LEMMA OnSave ==
  ASSUME NEW c, IsSave(c), NEW step \in Later, NEW record, NEW todo, NEW company
  PROVE  LET d == On(c, step, record, todo, company)
         IN  /\ IsSave(d) /\ d.step = step /\ d.record = record /\ d.todo = todo
             /\ d.company = company /\ d.kind = c.kind /\ d.data = c.data /\ d.seen = c.seen
             /\ d.about = c.about /\ d.prev = c.prev
BY DEF On, IsSave, Later

\* The ways in which the background writes the fields of a handler.
WithStep(s, step) == [calls EXCEPT ![s].step = step]
WithRecord(s, step, record) == [calls EXCEPT ![s].step = step, ![s].record = record]
WithCompany(s, step, company) == [calls EXCEPT ![s].step = step, ![s].company = company]
WithTodo(s, todo, company, step) ==
  [calls EXCEPT ![s].todo = todo, ![s].company = company, ![s].step = step]

\* Setting the step is going on.
LEMMA OnStep ==
  ASSUME TabInv, NEW s \in Slots, NEW c, c = calls[s], IsSave(c), NEW step,
         calls' = WithStep(s, step)
  PROVE  calls' = [calls EXCEPT ![s] = On(c, step, c.record, c.todo, c.company)]
<1>1. calls = [t \in Slots |-> calls[t]]
  BY DEF TabInv
<1>2. calls' = [calls EXCEPT ![s] = [c EXCEPT !.step = step]]
  BY <1>1 DEF IsSave, WithStep
<1>3. [c EXCEPT !.step = step] = On(c, step, c.record, c.todo, c.company)
  BY DEF On, IsSave
<1> QED BY <1>2, <1>3

\* So is setting the step and the record,
LEMMA OnRecord ==
  ASSUME TabInv, NEW s \in Slots, NEW c, c = calls[s], IsSave(c), NEW step, NEW record,
         calls' = WithRecord(s, step, record)
  PROVE  calls' = [calls EXCEPT ![s] = On(c, step, record, c.todo, c.company)]
<1>1. calls = [t \in Slots |-> calls[t]]
  BY DEF TabInv
<1>2. calls' = [calls EXCEPT ![s] = [c EXCEPT !.step = step, !.record = record]]
  BY <1>1 DEF IsSave, WithRecord
<1>3. [c EXCEPT !.step = step, !.record = record] = On(c, step, record, c.todo, c.company)
  BY DEF On, IsSave
<1> QED BY <1>2, <1>3

\* the step and the company,
LEMMA OnCompany ==
  ASSUME TabInv, NEW s \in Slots, NEW c, c = calls[s], IsSave(c), NEW step, NEW company,
         calls' = WithCompany(s, step, company)
  PROVE  calls' = [calls EXCEPT ![s] = On(c, step, c.record, c.todo, company)]
<1>1. calls = [t \in Slots |-> calls[t]]
  BY DEF TabInv
<1>2. calls' = [calls EXCEPT ![s] = [c EXCEPT !.step = step, !.company = company]]
  BY <1>1 DEF IsSave, WithCompany
<1>3. [c EXCEPT !.step = step, !.company = company] = On(c, step, c.record, c.todo, company)
  BY DEF On, IsSave
<1> QED BY <1>2, <1>3

\* and what is left, the company and the step.
LEMMA OnTodo ==
  ASSUME TabInv, NEW s \in Slots, NEW c, c = calls[s], IsSave(c), NEW step, NEW todo, NEW company,
         calls' = WithTodo(s, todo, company, step)
  PROVE  calls' = [calls EXCEPT ![s] = On(c, step, c.record, todo, company)]
<1>1. calls = [t \in Slots |-> calls[t]]
  BY DEF TabInv
<1>2. calls' = [calls EXCEPT ![s] = [c EXCEPT !.todo = todo, !.company = company, !.step = step]]
  <2>1. PICK g : g = [calls EXCEPT ![s].todo = todo, ![s].company = company]
    OBVIOUS
  <2>2. g = [calls EXCEPT ![s] = [c EXCEPT !.todo = todo, !.company = company]]
    BY <1>1, <2>1 DEF IsSave
  <2>3. calls' = [g EXCEPT ![s].step = step]
    BY <1>1, <2>1 DEF IsSave, WithTodo
  <2>4. g[s] = [c EXCEPT !.todo = todo, !.company = company]
    BY <1>1, <2>2
  <2>5. IsSave(g[s]) /\ g = [t \in Slots |-> g[t]]
    BY <1>1, <2>2, <2>4 DEF IsSave
  <2>6. [g EXCEPT ![s].step = step] = [g EXCEPT ![s] = [g[s] EXCEPT !.step = step]]
    BY <2>5 DEF IsSave
  <2>7. [g EXCEPT ![s] = [g[s] EXCEPT !.step = step]]
          = [calls EXCEPT ![s] = [g[s] EXCEPT !.step = step]]
    BY <1>1, <2>2, <2>5
  <2>8. [g[s] EXCEPT !.step = step] = [c EXCEPT !.todo = todo, !.company = company, !.step = step]
    BY <2>4
  <2> QED BY <2>3, <2>6, <2>7, <2>8
<1>3. [c EXCEPT !.todo = todo, !.company = company, !.step = step] = On(c, step, c.record, todo, company)
  BY DEF On, IsSave
<1> QED BY <1>2, <1>3

\* A save that goes on keeps the invariant.
LEMMA SaveGoesOn ==
  ASSUME TabInv, NEW s \in Slots, IsSave(calls[s]), NEW step \in Later, NEW record, NEW todo,
         NEW company, calls' = [calls EXCEPT ![s] = On(calls[s], step, record, todo, company)],
         UNCHANGED <<tab, ghosts>>, people' \in Seq(Person)
  PROVE  TabInv'
<1>1. PICK c : c = calls[s]
  OBVIOUS
<1>2. PICK d : d = On(c, step, record, todo, company)
  OBVIOUS
<1>3. /\ IsSave(c) /\ IsSave(d) /\ d.kind = c.kind /\ d.data = c.data /\ d.seen = c.seen
      /\ d.about = c.about /\ d.prev = c.prev
  BY <1>1, <1>2, OnSave
<1>4. Keeps(c, d) /\ s \in Flows
  BY <1>1, <1>3 DEF Keeps, IsSave, Flows, Saves
<1> QED BY <1>1, <1>2, <1>3, <1>4, Advances DEF IsCall

\* What each step of the background writes.
LEMMA BackgroundWrites ==
  ASSUME TabInv, NEW s \in Slots, NEW c, c = calls[s]
  PROVE  LET goes(step, r, t, k) == IsSave(c) /\ calls' = [calls EXCEPT ![s] = On(c, step, r, t, k)]
         IN  /\ createPerson(s) =>
                  goes(AfterPerson(c), [type |-> "person", id |-> Len(people) + 1], c.todo, c.company)
             /\ createCompany(s) =>
                  goes("remember", [type |-> "company", id |-> Len(companies) + 1], c.todo, c.company)
             /\ updatePerson(s) => goes(AfterPerson(c), c.record, c.todo, c.company)
             /\ updateCompany(s) => goes("done", c.record, c.todo, c.company)
             /\ FindEmployer(s) =>
                  \/ goes("make", c.record, c.todo, c.company)
                  \/ \E k : goes("link", c.record, c.todo, k)
             /\ MakeEmployer(s) => goes("link", c.record, c.todo, Len(companies) + 1)
             /\ linkPersonCompany(s) =>
                  goes(IF Len(c.todo) > 1 THEN "find" ELSE LastStep(c), c.record, Tail(c.todo), 0)
             /\ Remember(s) => goes("done", c.record, c.todo, c.company)
<1>1. ASSUME Background(s, {"post", "put", "find", "make", "link", "remember"}) PROVE IsSave(c)
  BY <1>1 DEF Background, TabInv, Free, IsCall, IsWaiting, IsCheck
<1>3. ASSUME createPerson(s)
      PROVE  IsSave(c) /\ calls' = [calls EXCEPT ![s] =
               On(c, AfterPerson(c), [type |-> "person", id |-> Len(people) + 1], c.todo, c.company)]
  <2>1. PICK step, record : step = AfterPerson(c) /\ record = [type |-> "person", id |-> Len(people) + 1]
    OBVIOUS
  <2>2. IsSave(c) /\ calls' = WithRecord(s, step, record)
    BY <1>1, <1>3, <2>1 DEF createPerson, WithRecord, Background
  <2>3. calls' = [calls EXCEPT ![s] = On(c, step, record, c.todo, c.company)]
    BY <2>2, OnRecord
  <2> QED BY <2>1, <2>2, <2>3
<1>4. ASSUME createCompany(s)
      PROVE  IsSave(c) /\ calls' = [calls EXCEPT ![s] =
               On(c, "remember", [type |-> "company", id |-> Len(companies) + 1], c.todo, c.company)]
  <2>1. PICK record : record = [type |-> "company", id |-> Len(companies) + 1]
    OBVIOUS
  <2>2. IsSave(c) /\ calls' = WithRecord(s, "remember", record)
    BY <1>1, <1>4, <2>1 DEF createCompany, WithRecord, Background
  <2>3. calls' = [calls EXCEPT ![s] = On(c, "remember", record, c.todo, c.company)]
    BY <2>2, OnRecord
  <2> QED BY <2>1, <2>2, <2>3
<1>5. ASSUME FindEmployer(s)
      PROVE  IsSave(c) /\
               \/ calls' = [calls EXCEPT ![s] = On(c, "make", c.record, c.todo, c.company)]
               \/ \E k : calls' = [calls EXCEPT ![s] = On(c, "link", c.record, c.todo, k)]
  <2>1. IsSave(c)
    BY <1>1, <1>5 DEF FindEmployer, Background
  <2>2. calls' = WithStep(s, "make")
          \/ \E k : calls' = WithCompany(s, "link", k)
    BY <1>5 DEF FindEmployer, Goto, WithStep, WithCompany
  <2>3. ASSUME NEW k, calls' = WithCompany(s, "link", k)
        PROVE  calls' = [calls EXCEPT ![s] = On(c, "link", c.record, c.todo, k)]
    BY <2>1, <2>3, OnCompany
  <2> QED BY <2>1, <2>2, <2>3, OnStep
<1>6. ASSUME MakeEmployer(s)
      PROVE  IsSave(c) /\ calls' = [calls EXCEPT ![s] =
               On(c, "link", c.record, c.todo, Len(companies) + 1)]
  <2>1. PICK company : company = Len(companies) + 1
    OBVIOUS
  <2>2. IsSave(c) /\ calls' = WithCompany(s, "link", company)
    BY <1>1, <1>6, <2>1 DEF MakeEmployer, WithCompany, Background
  <2>3. calls' = [calls EXCEPT ![s] = On(c, "link", c.record, c.todo, company)]
    BY <2>2, OnCompany
  <2> QED BY <2>1, <2>2, <2>3
<1>7. ASSUME linkPersonCompany(s)
      PROVE  IsSave(c) /\ calls' = [calls EXCEPT ![s] =
               On(c, IF Len(c.todo) > 1 THEN "find" ELSE LastStep(c), c.record, Tail(c.todo), 0)]
  <2>1. PICK step, todo : step = (IF Len(c.todo) > 1 THEN "find" ELSE LastStep(c)) /\ todo = Tail(c.todo)
    OBVIOUS
  <2>2. IsSave(c)
    BY <1>1, <1>7 DEF linkPersonCompany, Background
  <2>3. calls = [t \in Slots |-> calls[t]]
    BY DEF TabInv
  <2>4. calls' = WithTodo(s, todo, 0, step)
    BY <1>7, <2>1, <2>2, <2>3 DEF linkPersonCompany, IsSave, WithTodo
  <2>5. calls' = [calls EXCEPT ![s] = On(c, step, c.record, todo, 0)]
    BY <2>2, <2>4, OnTodo
  <2> QED BY <2>1, <2>2, <2>5
<1>8. ASSUME updatePerson(s)
      PROVE  IsSave(c) /\ calls' = [calls EXCEPT ![s] = On(c, AfterPerson(c), c.record, c.todo, c.company)]
  <2>1. PICK step : step = AfterPerson(c)
    OBVIOUS
  <2>2. IsSave(c) /\ calls' = WithStep(s, step)
    BY <1>1, <1>8, <2>1 DEF updatePerson, WithStep, Background, Goto
  <2>3. calls' = [calls EXCEPT ![s] = On(c, step, c.record, c.todo, c.company)]
    BY <2>2, OnStep
  <2> QED BY <2>1, <2>2, <2>3
<1>9. ASSUME updateCompany(s) \/ Remember(s)
      PROVE  IsSave(c) /\ calls' = [calls EXCEPT ![s] = On(c, "done", c.record, c.todo, c.company)]
  <2>1. IsSave(c) /\ calls' = WithStep(s, "done")
    BY <1>1, <1>9 DEF updateCompany, WithStep, Remember, Background, Goto
  <2> QED BY <2>1, OnStep
<1> QED BY <1>3, <1>4, <1>5, <1>6, <1>7, <1>8, <1>9

\* A step of the background.
LEMMA BackgroundKeeps ==
  ASSUME TabInv, NEW s \in Slots, BackgroundStep(s)
  PROVE  TabInv'
<1>1. PICK c : c = calls[s]
  OBVIOUS
<1> DEFINE goes == IsSave(c) /\ \E step \in Later : \E r, t, k :
                     calls' = [calls EXCEPT ![s] = On(c, step, r, t, k)]
<1>2. AfterPerson(c) \in Later /\ LastStep(c) \in Later
  BY DEF AfterPerson, LastStep, Later
<1>3. ASSUME goes, UNCHANGED <<tab, ghosts>>, people' \in Seq(Person) PROVE TabInv'
  BY <1>1, <1>3, SaveGoesOn
<1>4. people \in Seq(Person)
  BY DEF TabInv
<1>5. IsSave(c) => c.data \in Data
  BY DEF IsSave
<1>6. ASSUME findPersonByLinkedInUrl(s) \/ findPersonByName(s) \/ findCompanyByName(s) PROVE TabInv'
  BY <1>6, ChecksKeep
<1>7. ASSUME createPerson(s) PROVE TabInv'
  <2>1. goes
    BY <1>1, <1>2, <1>7, BackgroundWrites
  <2>2. UNCHANGED <<tab, ghosts>> /\ people' = Append(people, Row(c.data)) /\ IsPerson(c.data.url)
    BY <1>1, <1>7 DEF createPerson
  <2>3. people' \in Seq(Person)
    BY <1>4, <1>5, <2>1, <2>2, PersonTyped
  <2> HIDE DEF goes
  <2> QED BY <1>3, <2>1, <2>2, <2>3
<1>8. ASSUME updatePerson(s) PROVE TabInv'
  <2>1. goes
    BY <1>1, <1>2, <1>8, BackgroundWrites
  <2>2. /\ UNCHANGED <<tab, ghosts>> /\ people' = [people EXCEPT ![c.record.id] = Row(c.data)]
        /\ IsPerson(c.data.url)
    BY <1>1, <1>8 DEF updatePerson
  <2>3. PICK row \in Person : row = Row(c.data)
    BY <1>5, <2>1, <2>2, PersonTyped
  <2>4. people' = [people EXCEPT ![c.record.id] = row]
    BY <2>2, <2>3
  <2>5. people' \in Seq(Person)
    <3>1. PICK n \in Nat : people \in [1..n -> Person]
      BY <1>4
    <3>2. people' \in [1..n -> Person]
      BY <2>4, <3>1
    <3> QED BY <3>2
  <2> HIDE DEF goes
  <2> QED BY <1>3, <2>1, <2>2, <2>5
<1>9. ASSUME createCompany(s) \/ updateCompany(s) \/ FindEmployer(s) \/ MakeEmployer(s)
             \/ linkPersonCompany(s) \/ Remember(s)
      PROVE  TabInv'
  <2>1. {"remember", "done", "make", "link", "find"} \subseteq Later
    BY DEF Later
  <2>2. goes
    <3>1. CASE createCompany(s) \/ updateCompany(s) \/ MakeEmployer(s) \/ Remember(s)
      BY <1>1, <2>1, <3>1, BackgroundWrites
    <3>2. CASE FindEmployer(s)
      BY <1>1, <2>1, <3>2, BackgroundWrites
    <3>3. CASE linkPersonCompany(s)
      <4>1. PICK step \in Later : step = IF Len(c.todo) > 1 THEN "find" ELSE LastStep(c)
        BY <1>2, <2>1
      <4>2. IsSave(c) /\ calls' = [calls EXCEPT ![s] = On(c, step, c.record, Tail(c.todo), 0)]
        BY <1>1, <3>3, <4>1, BackgroundWrites
      <4> QED BY <4>2
    <3> QED BY <1>9, <3>1, <3>2, <3>3
  <2>3. UNCHANGED <<tab, ghosts, people>>
    BY <1>9 DEF createCompany, updateCompany, FindEmployer, MakeEmployer, linkPersonCompany,
         Remember, crm
  <2> HIDE DEF goes
  <2> QED BY <1>3, <1>4, <2>2, <2>3
<1> QED BY <1>6, <1>7, <1>8, <1>9 DEF BackgroundStep

\* An answer is taken by the script.
LEMMA AnswersKeep ==
  ASSUME TabInv, NEW s \in Slots, Answers(s)
  PROVE  TabInv'
<1>1. PICK c : c = calls[s]
  OBVIOUS
<1>2. /\ calls' = [calls EXCEPT ![s] = Free] /\ s \in Flows /\ (IsCheck(c) \/ IsSave(c))
      /\ UNCHANGED <<page, drawn, people, crossed, stranded>> /\ Looked(c, stranded)
  BY <1>1 DEF Answers, CheckAnswers, CheckFailed, SaveAnswers, SaveFailed, Answered, Background, Requests,
       TabInv, IsCall, IsWaiting, Flows, Free, crm, ghosts
<1>3. Addresses \subseteq Known
  <2>1. \A i \in DOMAIN people : people[i] \in Person
    BY DEF TabInv
  <2> QED BY <2>1 DEF Addresses, Person
<1>4. ASSUME IsUi(ui'),
             ui'.status = "ready" /\ "ready" \notin stranded =>
               ui'.about # None /\ ui'.about \notin ui'.seen,
             \A p \in Pages : UiOf(p) /\ CallOf(c, p) => UiOf(p)'
      PROVE  TabInv'
  BY <1>1, <1>2, <1>4, Goes DEF TabInv
<1>5. CASE CheckAnswers(s)
  <2>1. IsCheck(c)
    BY <1>1, <1>2, <1>5 DEF CheckAnswers, IsSave, Saves
  <2>2. CASE c.found # None
    <3>1. ui' = [ui EXCEPT !.status = "exists", !.record = c.found, !.about = c.page, !.seen = Addresses]
      BY <1>1, <1>5, <2>2 DEF CheckAnswers
    <3>2. /\ IsUi(ui') /\ ui'.status = "exists" /\ ui'.about = c.page /\ ui'.data = ui.data
      BY <1>3, <2>1, <3>1 DEF TabInv, IsUi, IsCheck, Statuses
    <3>3. \A p \in Pages : UiOf(p) /\ CallOf(c, p) => UiOf(p)'
      BY <1>2, <2>1, <3>2 DEF UiOf, CallOf, IsCheck
    <3> QED BY <1>4, <3>2, <3>3
  <2>3. CASE c.found = None
    <3>1. ui' = [ui EXCEPT !.status = "ready", !.data = c.data, !.about = c.page, !.seen = c.seen]
      BY <1>1, <1>5, <2>3 DEF CheckAnswers
    <3>2. /\ IsUi(ui') /\ ui'.about = c.page /\ ui'.data = c.data /\ ui'.seen = c.seen
          /\ c.page \in Pages
      BY <2>1, <3>1 DEF TabInv, IsUi, IsCheck, Statuses
    <3>3. \A p \in Pages : UiOf(p) /\ CallOf(c, p) => UiOf(p)'
      BY <1>2, <2>1, <3>2 DEF UiOf, CallOf, IsCheck
    <3>4. ui'.about # None /\ ui'.about \notin ui'.seen
      BY <1>2, <2>1, <3>2, CaptureAssumption DEF Looked, IsCheck
    <3> QED BY <1>4, <3>2, <3>3, <3>4
  <2> QED BY <2>2, <2>3
<1>6. CASE CheckFailed(s)
  <2>1. PICK status \in {"idle", "error"} : ui' = [ui EXCEPT !.status = status]
    BY <1>6 DEF CheckFailed
  <2>2. /\ IsUi(ui') /\ ui'.status = status /\ ui'.about = ui.about /\ ui'.data = ui.data
        /\ ui'.record = ui.record
    BY <2>1 DEF TabInv, IsUi, Statuses
  <2>3. \A p \in Pages : UiOf(p) => UiOf(p)'
    BY <1>2, <2>2 DEF UiOf
  <2> QED BY <1>4, <2>1, <2>2, <2>3
<1>7. CASE SaveAnswers(s)
  <2>1. IsSave(c)
    BY <1>1, <1>2, <1>7 DEF SaveAnswers, IsCheck
  <2>2. CASE c.kind = "update"
    <3>1. ui' = [ui EXCEPT !.status = "saved", !.data = c.data]
      BY <1>1, <1>7, <2>2 DEF SaveAnswers
    <3>2. /\ IsUi(ui') /\ ui'.status = "saved" /\ ui'.about = ui.about /\ ui'.data = c.data
          /\ ui'.record = ui.record
      BY <2>1, <3>1 DEF TabInv, IsUi, IsSave, Statuses
    <3>3. \A p \in Pages : UiOf(p) /\ CallOf(c, p) => UiOf(p)'
      BY <1>2, <2>1, <3>2 DEF UiOf, CallOf, IsSave
    <3> QED BY <1>4, <3>2, <3>3
  <2>3. CASE c.kind # "update"
    <3>1. ui' = [ui EXCEPT !.status = "saved", !.data = c.data, !.record = c.record,
                           !.about = c.data.url, !.seen = Addresses]
      BY <1>1, <1>7, <2>3 DEF SaveAnswers
    <3>2. /\ IsUi(ui') /\ ui'.status = "saved" /\ ui'.about = c.data.url /\ ui'.data = c.data
      BY <1>3, <2>1, <3>1 DEF TabInv, IsUi, IsSave, Statuses, Data
    <3>3. \A p \in Pages : UiOf(p) /\ CallOf(c, p) => UiOf(p)'
      BY <1>2, <2>1, <3>2 DEF UiOf, CallOf, IsSave
    <3> QED BY <1>4, <3>2, <3>3
  <2> QED BY <2>2, <2>3
<1>8. CASE SaveFailed(s)
  <2>1. IsSave(c)
    BY <1>1, <1>2, <1>8 DEF SaveFailed, IsCheck
  <2>2. ui' = [ui EXCEPT !.status = c.prev, !.data = c.data]
    BY <1>1, <1>8 DEF SaveFailed
  <2>3. /\ IsUi(ui') /\ ui'.status = c.prev /\ ui'.about = ui.about /\ ui'.data = c.data
        /\ ui'.record = ui.record
    BY <2>1, <2>2 DEF TabInv, IsUi, IsSave
  <2>4. \A p \in Pages : UiOf(p) /\ CallOf(c, p) => UiOf(p)'
    BY <1>2, <2>1, <2>3 DEF UiOf, CallOf, IsSave
  <2>5. "ready" \notin stranded => ui'.status # "ready"
    BY <1>2, <2>1, <2>3 DEF Looked, IsSave
  <2> QED BY <1>4, <2>3, <2>4, <2>5
<1> QED BY <1>5, <1>6, <1>7, <1>8 DEF Answers

\* The page, the timers, the panel and the rest of the world.
LEMMA OthersKeep ==
  ASSUME TabInv,
         \/ \E p \in Pages \cup {Feed} : Navigate(p)
         \/ Draw \/ OpenPanel \/ ClosePanel \/ SavedTimer
         \/ \E p \in Newcomers : Elsewhere(p)
  PROVE  TabInv'
<1> USE DEF TabInv
<1>1. CASE \E p \in Pages \cup {Feed} : Navigate(p)
  <2>1. PICK p \in Pages \cup {Feed} : Navigate(p)
    BY <1>1
  <2>2. UNCHANGED <<drawn, calls, people, stranded>> /\ page' = p
    BY <2>1 DEF Navigate, crm
  <2>3. CASE p \in Pages
    <3>1. ui' = InitialState /\ crossed' = (crossed \/ Flows # {})
      BY <2>1, <2>3 DEF Navigate
    <3>2. /\ IsUi(ui') /\ ui'.status = "idle" /\ ui'.about = None /\ ui'.record = None
          /\ ui'.data = None
      BY <3>1 DEF InitialState, IsUi, Statuses
    <3>3. UiOf(p)' /\ Flows' = Flows
      BY <2>2, <2>3, <3>2 DEF UiOf, Flows
    <3> QED BY <2>2, <2>3, <3>1, <3>2, <3>3
  <2>4. CASE p \notin Pages
    <3>1. UNCHANGED <<ui, crossed>>
      BY <2>1, <2>4 DEF Navigate
    <3>2. \A q \in Pages : UiOf(q) => UiOf(q)'
      BY <2>2, <2>4, <3>1 DEF UiOf
    <3> QED BY <2>2, <3>1, <3>2 DEF Flows
  <2> QED BY <2>3, <2>4
<1>2. CASE Draw
  <2>1. UNCHANGED <<page, ui, calls, people, crossed, stranded>> /\ drawn' = page
    BY <1>2 DEF Draw, crm, ghosts
  <2> QED BY <2>1 DEF UiOf, Flows
<1>3. CASE OpenPanel \/ ClosePanel
  <2>1. UNCHANGED <<page, drawn, ui, calls, people, crossed, stranded>>
    BY <1>3 DEF OpenPanel, ClosePanel, crm, ghosts
  <2> QED BY <2>1 DEF UiOf, Flows
<1>4. CASE SavedTimer
  <2>1. /\ UNCHANGED <<page, drawn, calls, people, crossed, stranded>>
        /\ ui' = [ui EXCEPT !.status = "exists"]
    BY <1>4 DEF SavedTimer, crm, ghosts
  <2>2. /\ IsUi(ui') /\ ui'.status = "exists" /\ ui'.about = ui.about /\ ui'.record = ui.record
        /\ ui'.data = ui.data
    BY <2>1 DEF IsUi, Statuses
  <2>3. \A q \in Pages : UiOf(q) => UiOf(q)'
    BY <2>1, <2>2 DEF UiOf
  <2> QED BY <2>1, <2>2, <2>3 DEF Flows
<1>5. CASE \E p \in Newcomers : Elsewhere(p)
  <2>1. PICK p \in Newcomers : Elsewhere(p)
    BY <1>5
  <2>2. /\ UNCHANGED <<page, drawn, ui, calls, crossed, stranded>>
        /\ people' = Append(people, Row([url |-> p, of |-> p]))
    BY <2>1 DEF Elsewhere, tab, ghosts
  <2>3. people' \in Seq(Person)
    BY <2>2, CaptureAssumption DEF Row, Person, Known
  <2> QED BY <2>2, <2>3 DEF UiOf, Flows
<1> QED BY <1>1, <1>2, <1>3, <1>4, <1>5

\* A click.
LEMMA UserKeeps ==
  ASSUME TabInv, NEW s \in Slots, User(s)
  PROVE  TabInv'
<1>1. CASE handleCapture(s)
  <2>1. /\ s \in FreeSlots /\ ui.status = "ready" /\ Save(s, Waiting("capture", None))
        /\ UNCHANGED <<page, drawn, people>>
    BY <1>1 DEF handleCapture, crm
  <2> QED BY <2>1, SaveKeeps DEF Saves
<1>2. CASE updateExistingRecord(s)
  <2>1. /\ s \in FreeSlots /\ Save(s, Waiting("update", None))
        /\ UNCHANGED <<page, drawn, people>>
    BY <1>2 DEF updateExistingRecord, crm
  <2> QED BY <2>1, SaveKeeps DEF Saves
<1>3. CASE \E r \in Offered : linkToRecord(s, r)
  <2>1. PICK r \in Offered : linkToRecord(s, r)
    BY <1>3
  <2>2. /\ s \in FreeSlots /\ Save(s, Waiting("link", r))
        /\ UNCHANGED <<page, drawn, people>>
    BY <2>1 DEF linkToRecord, crm
  <2> QED BY <2>2, SaveKeeps DEF Saves
<1> QED BY <1>1, <1>2, <1>3 DEF User

\* Every step keeps the invariant.
LEMMA TabStep ==
  ASSUME TabInv, [CaptureNext]_captureVars
  PROVE  TabInv'
<1>1. CASE UNCHANGED captureVars
  BY <1>1 DEF captureVars, tab, crm, bounds, ghosts, TabInv, UiOf, Flows
<1>2. CASE CheckTimer \/ ClickToCheck
  <2>1. CASE page \in Pages
    <3>1. (\E s \in FreeSlots : checkExisting(s)) /\ UNCHANGED <<page, drawn, people, stranded>>
      BY <1>2, <2>1 DEF CheckTimer, ClickToCheck, crm
    <3> QED BY <2>1, <3>1, CheckKeeps
  <2>2. CASE page \notin Pages
    <3>1. UNCHANGED <<page, drawn, calls, ui, people, crossed, stranded>>
      BY <1>2, <2>2 DEF CheckTimer, ClickToCheck, crm
    <3> QED BY <3>1 DEF TabInv, UiOf, Flows
  <2> QED BY <2>1, <2>2
<1>3. ASSUME NEW s \in Slots, User(s) \/ Handler(s) PROVE TabInv'
  BY <1>3, UserKeeps, ScrapeAgainKeeps, BackgroundKeeps, AnswersKeep DEF Handler
<1> QED BY <1>1, <1>2, <1>3, OthersKeep DEF CaptureNext

\* It holds at the start.
LEMMA TabStart == CaptureInit => TabInv
<1> SUFFICES ASSUME CaptureInit PROVE TabInv
  OBVIOUS
<1>1. IsUi(ui) /\ ui.status = "idle" /\ ui.about = None /\ ui.record = None /\ ui.data = None
  BY DEF CaptureInit, InitialState, IsUi, Statuses
<1>2. Flows = {} /\ \A s \in Slots : calls[s] = Free
  BY DEF CaptureInit, Flows, Free
<1>3. UiOf(page)
  BY <1>1 DEF UiOf, CaptureInit
<1> QED BY <1>1, <1>2, <1>3 DEF CaptureInit, TabInv

\* So it holds always.
LEMMA TabInvariant == CaptureSpec => []TabInv
<1>1. TabInv /\ [CaptureNext]_captureVars => TabInv'
  BY TabStep
<1> QED BY <1>1, TabStart, PTL DEF CaptureSpec

\* The person who is created has the address that the check behind "Add" looked
\* for, and nobody had that address when it looked: a second row for an address
\* was made after that look, by somebody else or by a second click on the same
\* "Add" (handleCapture).  Exempt are crossed and stranded, as in the property.
THEOREM NoTwins == CaptureSpec => TwinOnlyByStaleCheck
<1>1. TabInv =>
        \A s \in Slots :
          createPerson(s) /\ ~crossed /\ "ready" \notin stranded =>
            calls[s].about = calls[s].data.url /\ calls[s].data.url \notin calls[s].seen
  <2> SUFFICES ASSUME TabInv, NEW s \in Slots, createPerson(s), ~crossed, "ready" \notin stranded
               PROVE  calls[s].about = calls[s].data.url /\ calls[s].data.url \notin calls[s].seen
    OBVIOUS
  <2>1. s \in Flows /\ IsSave(calls[s]) /\ calls[s].step = "post" /\ Looked(calls[s], stranded)
    BY DEF createPerson, Background, Flows, TabInv, Free, IsCall, IsCheck, IsWaiting
  <2>2. PICK p \in Pages : CallOf(calls[s], p)
    BY <2>1 DEF TabInv
  <2> QED BY <2>1, <2>2 DEF CallOf, Looked, IsSave, Saves
<1> DEFINE Honest == \A s \in Slots :
             createPerson(s) /\ ~crossed /\ "ready" \notin stranded =>
               /\ calls[s].about = calls[s].data.url
               /\ calls[s].data.url \notin calls[s].seen
<1> HIDE DEF Honest
<1>2. TabInv => [Honest]_captureVars
  BY <1>1 DEF Honest
<1> QED BY <1>2, TabInvariant, PTL DEF TwinOnlyByStaleCheck, Honest

\* An update writes a page over a record of that page.
THEOREM UpdatesOwnRecord == CaptureSpec => UpdateHitsItsRecord
<1>1. TabInv =>
        \A s \in Slots :
          (updatePerson(s) \/ updateCompany(s)) /\ calls[s].kind = "update" /\ ~crossed =>
            calls[s].about = calls[s].data.url
  <2> SUFFICES ASSUME TabInv, NEW s \in Slots, updatePerson(s) \/ updateCompany(s),
                      calls[s].kind = "update", ~crossed
               PROVE  calls[s].about = calls[s].data.url
    OBVIOUS
  <2>1. s \in Flows /\ calls[s].step = "put"
    BY DEF updatePerson, updateCompany, Background, Flows
  <2>2. PICK p \in Pages : CallOf(calls[s], p)
    BY <2>1 DEF TabInv
  <2> QED BY <2>1, <2>2 DEF CallOf, Saves
<1> DEFINE Own == \A s \in Slots :
             (updatePerson(s) \/ updateCompany(s)) /\ calls[s].kind = "update" /\ ~crossed =>
               calls[s].about = calls[s].data.url
<1> HIDE DEF Own
<1>2. TabInv => [Own]_captureVars
  BY <1>1 DEF Own
<1> QED BY <1>2, TabInvariant, PTL DEF UpdateHitsItsRecord, Own

-----------------------------------------------------------------------------
\* Every page's document is one the scraper reads.
Readable == \A p \in Pages \cup {Feed} : ReadsShown(Dom[p])

\* The chain of requests of a save of a person: what is left of the companies
\* is a tail of what was read, and those before it are among the links.
Linked(c, name, ls) == \E l \in ls : l.person = c.record.id /\ l.as = name

ChainOf(c, ls) ==
  LET read == Employers[c.data.of]
  IN  /\ c.step \in {"post", "put"} => c.todo = read
      /\ c.step \in {"find", "make", "link"} =>
           \E n \in 1..Len(read) :
             /\ c.todo = SubSeq(read, n, Len(read))
             /\ \A i \in 1..(n - 1) : Linked(c, read[i].name, ls)
      /\ c.step \in {"remember", "done"} => \A i \in 1..Len(read) : Linked(c, read[i].name, ls)

\* The saves the chain is about.
InChain(c) == IsSave(c) /\ IsPerson(c.data.url)

\* The invariant of the chains.
ChainInv == \A s \in Slots : InChain(calls[s]) => ChainOf(calls[s], links)

\* No step takes a link away.
LEMMA LinksStay ==
  ASSUME [CaptureNext]_captureVars
  PROVE  links \subseteq links'
<1>1. CASE \E s \in Slots : linkPersonCompany(s)
  BY <1>1 DEF linkPersonCompany
<1>2. CASE \E s \in Slots : BackgroundStep(s) /\ ~linkPersonCompany(s)
  BY <1>2 DEF BackgroundStep, findPersonByLinkedInUrl, findPersonByName, findCompanyByName,
       createPerson, createCompany, updatePerson, updateCompany, FindEmployer, MakeEmployer,
       Remember, crm
<1>3. CASE \E s \in Slots : User(s) \/ ScrapeAgain(s) \/ Answers(s)
  BY <1>3 DEF User, handleCapture, updateExistingRecord, linkToRecord, ScrapeAgain, Answers,
       CheckAnswers, CheckFailed, SaveAnswers, SaveFailed, Answered, crm
<1>4. CASE \/ \E p \in Pages \cup {Feed} : Navigate(p)
           \/ Draw \/ CheckTimer \/ ClickToCheck \/ OpenPanel \/ ClosePanel \/ SavedTimer
           \/ \E p \in Newcomers : Elsewhere(p)
  BY <1>4 DEF Navigate, Draw, CheckTimer, ClickToCheck, OpenPanel, ClosePanel, SavedTimer,
       Elsewhere, crm
<1>5. CASE UNCHANGED captureVars
  BY <1>5 DEF captureVars, crm
<1> QED BY <1>1, <1>2, <1>3, <1>4, <1>5 DEF CaptureNext, Handler

\* More links do not break a chain.
LEMMA ChainGrows ==
  ASSUME NEW c, NEW ls, NEW more, ls \subseteq more, ChainOf(c, ls)
  PROVE  ChainOf(c, more)
<1>1. \A name : Linked(c, name, ls) => Linked(c, name, more)
  BY DEF Linked
<1> QED BY <1>1 DEF ChainOf

\* One handler moves.
LEMMA ChainGoes ==
  ASSUME TabInv, ChainInv, NEW s \in Slots, NEW d, calls' = [calls EXCEPT ![s] = d],
         links \subseteq links', InChain(d) => ChainOf(d, links')
  PROVE  ChainInv'
<1>1. calls'[s] = d /\ \A t \in Slots \ {s} : calls'[t] = calls[t]
  BY DEF TabInv
<1> SUFFICES ASSUME NEW t \in Slots, InChain(calls'[t]) PROVE ChainOf(calls'[t], links')
  BY DEF ChainInv
<1>2. CASE t = s
  BY <1>1, <1>2
<1>3. CASE t # s
  BY <1>1, <1>3, ChainGrows DEF ChainInv
<1> QED BY <1>2, <1>3

\* Nothing but the links moves.
LEMMA ChainStays ==
  ASSUME ChainInv, UNCHANGED calls, links \subseteq links'
  PROVE  ChainInv'
BY ChainGrows DEF ChainInv

\* A step of the background carries the chain on.
LEMMA ChainBackground ==
  ASSUME TabInv, ChainInv, Readable, NEW s \in Slots, BackgroundStep(s), links \subseteq links'
  PROVE  ChainInv'
<1>1. PICK c : c = calls[s]
  OBVIOUS
<1>2. PICK read : read = Employers[c.data.of]
  OBVIOUS
<1>3. InChain(c) => ChainOf(c, links) /\ ChainOf(c, links') /\ read \in Seq(Experience)
  BY <1>1, <1>2, ChainGrows DEF ChainInv, InChain, IsSave, Data, Readable, ReadsShown, Employers,
       Profile
<1>4. ASSUME IsSave(c), NEW step \in Later, NEW record, NEW todo, NEW company,
             calls' = [calls EXCEPT ![s] = On(c, step, record, todo, company)],
             \A d : /\ InChain(c) /\ d.data = c.data
                    /\ d.step = step /\ d.record = record /\ d.todo = todo
                    => ChainOf(d, links')
      PROVE  ChainInv'
  <2>1. PICK d : d = On(c, step, record, todo, company)
    OBVIOUS
  <2>2. /\ IsSave(d) /\ d.data = c.data /\ d.step = step /\ d.record = record /\ d.todo = todo
    BY <1>4, <2>1, OnSave
  <2>3. InChain(d) => ChainOf(d, links')
    BY <1>4, <2>2 DEF InChain
  <2> QED BY <1>4, <2>1, <2>3, ChainGoes
<1>5. ASSUME NEW d, calls' = [calls EXCEPT ![s] = d], IsCheck(d) PROVE ChainInv'
  <2>1. ~InChain(d)
    BY <1>5 DEF InChain, IsCheck, IsSave, Saves
  <2> QED BY <1>5, <2>1, ChainGoes
<1>6. CASE findPersonByLinkedInUrl(s) \/ findPersonByName(s) \/ findCompanyByName(s)
  <2>1. PICK d : calls' = [calls EXCEPT ![s] = d] /\ IsCheck(d)
    BY <1>1, <1>6, ChecksWrite
  <2> QED BY <1>5, <2>1
<1>7. ASSUME InChain(c), c.step \in {"post", "put"},
             NEW d, d.data = c.data, d.todo = c.todo, d.step = AfterPerson(c)
      PROVE  ChainOf(d, links')
  <2>1. c.todo = read
    BY <1>2, <1>3, <1>7 DEF ChainOf
  <2>2. CASE read = <<>>
    <3>1. d.step \in {"remember", "done"} /\ Len(read) = 0
      BY <1>7, <2>1, <2>2 DEF AfterPerson, LastStep
    <3> QED BY <1>2, <1>7, <3>1 DEF ChainOf
  <2>3. CASE read # <<>>
    <3>1. d.step = "find" /\ 1 \in 1..Len(read) /\ read = SubSeq(read, 1, Len(read))
      BY <1>3, <1>7, <2>1, <2>3 DEF AfterPerson
    <3>2. d.todo = SubSeq(read, 1, Len(read)) /\ \A i \in 1..(1 - 1) : Linked(d, read[i].name, links')
      BY <1>7, <2>1, <3>1
    <3> QED BY <1>2, <1>7, <3>1, <3>2 DEF ChainOf
  <2> QED BY <2>2, <2>3
<1>8. CASE createPerson(s)
  <2>1. PICK step, record : /\ step \in Later /\ step = AfterPerson(c)
                            /\ record = [type |-> "person", id |-> Len(people) + 1]
    BY DEF AfterPerson, LastStep, Later
  <2>2. /\ IsSave(c) /\ c.step = "post"
        /\ calls' = [calls EXCEPT ![s] = On(c, step, record, c.todo, c.company)]
    <3>1. c.step = "post"
      BY <1>1, <1>8 DEF createPerson, Background
    <3>2. /\ IsSave(c)
          /\ calls' = [calls EXCEPT ![s] = On(c, AfterPerson(c), [type |-> "person", id |-> Len(people) + 1],
                                              c.todo, c.company)]
      BY <1>1, <1>8, BackgroundWrites
    <3> QED BY <2>1, <3>1, <3>2
  <2> QED BY <1>4, <1>7, <2>1, <2>2
<1>9. CASE updatePerson(s)
  <2>1. PICK step \in Later : step = AfterPerson(c)
    BY DEF AfterPerson, LastStep, Later
  <2>2. /\ IsSave(c) /\ c.step = "put"
        /\ calls' = [calls EXCEPT ![s] = On(c, step, c.record, c.todo, c.company)]
    <3>1. c.step = "put"
      BY <1>1, <1>9 DEF updatePerson, Background
    <3>2. IsSave(c) /\ calls' = [calls EXCEPT ![s] = On(c, AfterPerson(c), c.record, c.todo, c.company)]
      BY <1>1, <1>9, BackgroundWrites
    <3> QED BY <2>1, <3>1, <3>2
  <2> QED BY <1>4, <1>7, <2>1, <2>2
<1>10. CASE createCompany(s) \/ updateCompany(s)
  <2>1. PICK step, record : /\ step \in Later /\ IsSave(c)
                            /\ calls' = [calls EXCEPT ![s] = On(c, step, record, c.todo, c.company)]
    BY <1>1, <1>10, BackgroundWrites DEF Later
  <2>2. ~InChain(c)
    BY <1>1, <1>10 DEF createCompany, updateCompany, InChain
  <2> QED BY <1>4, <2>1, <2>2
<1>11. ASSUME InChain(c), c.step \in {"find", "make"},
              NEW d, d.data = c.data, d.todo = c.todo, d.record = c.record, d.step \in {"make", "link"}
       PROVE  ChainOf(d, links')
  <2>1. PICK n \in 1..Len(read) :
          c.todo = SubSeq(read, n, Len(read)) /\ \A i \in 1..(n - 1) : Linked(c, read[i].name, links')
    BY <1>2, <1>3, <1>11 DEF ChainOf
  <2>2. \A i \in 1..(n - 1) : Linked(d, read[i].name, links')
    BY <1>11, <2>1 DEF Linked
  <2> QED BY <1>2, <1>11, <2>1, <2>2 DEF ChainOf
<1>12. CASE FindEmployer(s) \/ MakeEmployer(s)
  <2>1. PICK step, company : /\ step \in {"make", "link"} /\ IsSave(c)
                             /\ calls' = [calls EXCEPT ![s] = On(c, step, c.record, c.todo, company)]
    BY <1>1, <1>12, BackgroundWrites
  <2>2. c.step \in {"find", "make"} /\ step \in Later
    BY <1>1, <1>12, <2>1 DEF FindEmployer, MakeEmployer, Background, Later
  <2> QED BY <1>4, <1>11, <2>1, <2>2
<1>13. CASE linkPersonCompany(s)
  <2>1. PICK step, todo : /\ step \in Later /\ todo = Tail(c.todo)
                          /\ step = (IF Len(c.todo) > 1 THEN "find" ELSE LastStep(c))
    BY DEF LastStep, Later
  <2>2. /\ IsSave(c) /\ c.step = "link"
        /\ calls' = [calls EXCEPT ![s] = On(c, step, c.record, todo, 0)]
        /\ links' = links \cup {[person |-> c.record.id, company |-> c.company, as |-> c.todo[1].name]}
    <3>1. /\ IsSave(c)
          /\ calls' = [calls EXCEPT ![s] = On(c, IF Len(c.todo) > 1 THEN "find" ELSE LastStep(c),
                                              c.record, Tail(c.todo), 0)]
      BY <1>1, <1>13, BackgroundWrites
    <3>2. /\ c.step = "link"
          /\ links' = links \cup {[person |-> c.record.id, company |-> c.company, as |-> c.todo[1].name]}
      BY <1>1, <1>13 DEF linkPersonCompany, Background
    <3> QED BY <2>1, <3>1, <3>2
  <2>3. ASSUME InChain(c), NEW d, d.data = c.data, d.step = step, d.record = c.record, d.todo = todo
        PROVE  ChainOf(d, links')
    <3>1. PICK n \in 1..Len(read) :
            c.todo = SubSeq(read, n, Len(read)) /\ \A i \in 1..(n - 1) : Linked(c, read[i].name, links')
      BY <1>2, <1>3, <2>2, <2>3 DEF ChainOf
    <3>2. Len(c.todo) = Len(read) - n + 1 /\ c.todo[1] = read[n] /\ Len(read) \in Nat /\ n \in Nat
      BY <1>3, <2>3, <3>1
    <3>3. Linked(c, read[n].name, links')
      <4>1. PICK l : l = [person |-> c.record.id, company |-> c.company, as |-> c.todo[1].name]
        OBVIOUS
      <4>2. l \in links' /\ l.person = c.record.id /\ l.as = read[n].name
        BY <2>2, <3>2, <4>1
      <4> QED BY <4>2 DEF Linked
    <3>4. \A i \in 1..n : Linked(d, read[i].name, links')
      BY <2>3, <3>1, <3>2, <3>3 DEF Linked
    <3>5. CASE Len(c.todo) > 1
      <4>1. d.step = "find" /\ n + 1 \in 1..Len(read)
        BY <2>1, <2>3, <3>2, <3>5
      <4>2. d.todo = SubSeq(read, n + 1, Len(read))
        BY <1>3, <2>1, <2>3, <3>1, <3>2, <4>1
      <4>3. \A i \in 1..((n + 1) - 1) : Linked(d, read[i].name, links')
        BY <3>2, <3>4
      <4> QED BY <1>2, <2>3, <4>1, <4>2, <4>3 DEF ChainOf
    <3>6. CASE ~(Len(c.todo) > 1)
      <4>1. d.step \in {"remember", "done"} /\ n = Len(read)
        BY <2>1, <2>3, <3>2, <3>6 DEF LastStep
      <4> QED BY <1>2, <2>3, <3>4, <4>1 DEF ChainOf
    <3> QED BY <3>5, <3>6
  <2> QED BY <1>4, <2>1, <2>2, <2>3
<1>14. CASE Remember(s)
  <2>1. /\ IsSave(c) /\ c.step = "remember" /\ "done" \in Later
        /\ calls' = [calls EXCEPT ![s] = On(c, "done", c.record, c.todo, c.company)]
    BY <1>1, <1>14, BackgroundWrites DEF Remember, Background, Later
  <2>2. ASSUME InChain(c), NEW d, d.data = c.data, d.step = "done", d.record = c.record
        PROVE  ChainOf(d, links')
    BY <1>2, <1>3, <2>1, <2>2 DEF ChainOf, Linked
  <2> QED BY <1>4, <2>1, <2>2
<1> QED BY <1>6, <1>8, <1>9, <1>10, <1>12, <1>13, <1>14 DEF BackgroundStep

\* A save begins its chain with all that was read.
LEMMA ChainSends ==
  ASSUME TabInv, ChainInv, NEW s \in Slots, NEW c, NEW data, Send(s, c, data), links \subseteq links'
  PROVE  ChainInv'
<1>1. ~InChain(Free)
  BY DEF InChain, IsSave, Free, Saves
<1>2. CASE calls' = [calls EXCEPT ![s] = Free]
  BY <1>1, <1>2, ChainGoes
<1>3. CASE calls' # [calls EXCEPT ![s] = Free]
  <2>1. PICK new :
          new = [kind |-> c.kind, step |-> IF c.kind = "capture" THEN "post" ELSE "put",
                 data |-> data, seen |-> c.seen,
                 about |-> IF c.kind = "update" THEN ui.about ELSE c.about,
                 record |-> IF c.kind = "update" THEN ui.record ELSE c.record,
                 prev |-> IF c.kind = "update" THEN ui.status ELSE "error",
                 todo |-> Experiences(data), company |-> 0]
    OBVIOUS
  <2>2. calls' = [calls EXCEPT ![s] = new]
    BY <1>3, <2>1 DEF Send
  <2>3. new.step \in {"post", "put"} /\ new.data = data /\ new.todo = Experiences(data)
    BY <2>1
  <2>4. InChain(new) => ChainOf(new, links')
    BY <2>3 DEF InChain, ChainOf, Experiences
  <2> HIDE <2>1
  <2> QED BY <2>2, <2>4, ChainGoes
<1> QED BY <1>2, <1>3

\* Every step carries the chains on.
LEMMA ChainStep ==
  ASSUME TabInv, ChainInv, Readable, [CaptureNext]_captureVars
  PROVE  ChainInv'
<1>1. links \subseteq links'
  BY LinksStay
<1>2. ASSUME NEW s \in Slots, NEW d, calls' = [calls EXCEPT ![s] = d],
             d.kind \in {"free", "check"} \/ d.step = "scroll"
      PROVE  ChainInv'
  <2>1. ~InChain(d)
    BY <1>2 DEF InChain, IsSave, Saves
  <2> QED BY <1>1, <1>2, <2>1, ChainGoes
<1>3. ASSUME NEW s \in Slots, NEW kind, NEW r, Save(s, Waiting(kind, r)) PROVE ChainInv'
  <2>1. PICK c : c = Waiting(kind, r)
    OBVIOUS
  <2>2. c.step = "scroll"
    BY <2>1 DEF Waiting
  <2>3. calls' = [calls EXCEPT ![s] = c] \/ Send(s, c, FreshData)
    BY <1>3, <2>1 DEF Save
  <2> QED BY <1>1, <1>2, <2>2, <2>3, ChainSends
<1>4. ASSUME NEW s \in Slots, User(s) PROVE ChainInv'
  <2>1. \E kind, r : Save(s, Waiting(kind, r))
    BY <1>4 DEF User, handleCapture, updateExistingRecord, linkToRecord
  <2> QED BY <1>3, <2>1
<1>5. ASSUME NEW s \in Slots, ScrapeAgain(s) PROVE ChainInv'
  BY <1>1, <1>5, ChainSends DEF ScrapeAgain
<1>6. ASSUME NEW s \in Slots, Answers(s) PROVE ChainInv'
  <2>1. calls' = [calls EXCEPT ![s] = Free] /\ Free.kind = "free"
    BY <1>6 DEF Answers, CheckAnswers, CheckFailed, SaveAnswers, SaveFailed, Answered, Free
  <2> QED BY <1>2, <2>1
<1>7. ASSUME NEW s \in FreeSlots, checkExisting(s) PROVE ChainInv'
  <2>1. PICK d : d = [kind |-> "check", step |-> "url", page |-> page, data |-> scrapeCurrentPage,
                      found |-> None, seen |-> {}]
    OBVIOUS
  <2>2. calls' = [calls EXCEPT ![s] = d] /\ d.kind = "check" /\ s \in Slots
    BY <1>7, <2>1 DEF checkExisting, FreeSlots
  <2> QED BY <1>2, <2>2
<1>8. CASE UNCHANGED calls
  BY <1>1, <1>8, ChainStays
<1>9. CASE CheckTimer \/ ClickToCheck
  BY <1>7, <1>8, <1>9 DEF CheckTimer, ClickToCheck
<1>10. CASE \/ \E p \in Pages \cup {Feed} : Navigate(p)
            \/ Draw \/ OpenPanel \/ ClosePanel \/ SavedTimer
            \/ \E p \in Newcomers : Elsewhere(p)
  BY <1>8, <1>10 DEF Navigate, Draw, OpenPanel, ClosePanel, SavedTimer, Elsewhere
<1>11. CASE UNCHANGED captureVars
  BY <1>8, <1>11 DEF captureVars
<1>12. ASSUME NEW s \in Slots, BackgroundStep(s) PROVE ChainInv'
  BY <1>1, <1>12, ChainBackground
<1> QED BY <1>4, <1>5, <1>6, <1>9, <1>10, <1>11, <1>12 DEF CaptureNext, Handler

\* A save that is reported as done has linked all that the top card shows,
\* as long as the scraper reads what it shows.
THEOREM DoneMeansLinked ==
  ASSUME \A p \in Pages \cup {Feed} : ReadsShown(Dom[p])
  PROVE  CaptureSpec => []SavedMeansLinked
<1>1. CaptureInit => ChainInv
  BY DEF CaptureInit, ChainInv, InChain, IsSave, Free, Saves
<1>2. TabInv /\ ChainInv => SavedMeansLinked
  <2> SUFFICES ASSUME TabInv, ChainInv, NEW s \in Flows, calls[s].kind # "check",
                      calls[s].step = "done", IsPerson(calls[s].data.url),
                      NEW n \in Shown(Dom[calls[s].data.of])
               PROVE  \E l \in links : l.person = calls[s].record.id /\ l.as = n
    BY DEF SavedMeansLinked
  <2>1. s \in Slots /\ IsSave(calls[s])
    BY DEF Flows, TabInv, Free, IsCall, IsCheck, IsWaiting
  <2>2. ChainOf(calls[s], links) /\ calls[s].data.of \in Pages \cup {Feed}
    BY <2>1 DEF ChainInv, InChain, IsSave, Data
  <2>3. PICK i \in 1..Len(Employers[calls[s].data.of]) : Employers[calls[s].data.of][i].name = n
    BY <2>2 DEF ReadsShown, Employers, Profile
  <2>4. Linked(calls[s], Employers[calls[s].data.of][i].name, links)
    BY <2>2, <2>3 DEF ChainOf
  <2> QED BY <2>3, <2>4 DEF Linked
<1>3. TabInv /\ ChainInv /\ [CaptureNext]_captureVars => ChainInv'
  BY ChainStep DEF Readable
<1> QED BY <1>1, <1>2, <1>3, TabInvariant, PTL DEF CaptureSpec
===============================================================================
