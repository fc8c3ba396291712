------------------------------ MODULE FolderSync ------------------------------
(***************************************************************************)
(* How mail gets from the folders of one IMAP account into email_messages: *)
(* the folder loop of SyncAccounts (internal/usecase/email.go), the fetch  *)
(* (internal/adapters/email/imap.go) and email_sync_cursors                *)
(* (internal/adapters/postgres/ai_email.go).                               *)
(*                                                                         *)
(* Several syncs of the account may run at once: the ticker's and those    *)
(* asked for with POST /email/sync.  A sync reads all cursors first; then, *)
(* folder by folder, it searches from the cursor less an overlap, keeps    *)
(* the newest messages, stores each one and sets the cursor to the time at *)
(* which it is done, whatever became of the messages.  The order of the    *)
(* folders is left open.                                                   *)
(*                                                                         *)
(* Time is counted in days, the grain of an IMAP search.                   *)
(***************************************************************************)
EXTENDS Naturals, FiniteSets

CONSTANTS
  Folders,
  Inbox,        \* the folder that is synced even if the listing fails
  Messages,
  FolderOf,     \* FolderOf[m] \in Folders
  Syncs,        \* syncs that may run at the same time
  Ticker,       \* the one that runEmailSync starts again and again
  FetchLimit,   \* messages a fetch keeps: 100
  Overlap,      \* days the search goes back behind the cursor: 1
  MaxSync,      \* bound on the days between the search and the end of a folder
  MaxTime,      \* bound on the clock
  Faults        \* connections, statements and messages may fail

ASSUME FolderSyncAssumption ==
  /\ Inbox \in Folders
  /\ FolderOf \in [Messages -> Folders]
  /\ Ticker \in Syncs
  /\ FetchLimit \in Nat /\ Overlap \in Nat /\ MaxSync \in Nat /\ MaxTime \in Nat
  /\ MaxSync <= Overlap
  /\ Faults \in BOOLEAN

VARIABLES
  now,       \* the day; 0 is before everything
  arrived,   \* arrived[m]: the day m came into its folder, 0 if not yet
  stored,    \* email_messages
  cursor,    \* email_sync_cursors.last_synced_at, 0 where there is no row
  missed,    \* messages a sync saw and gave up: beyond the limit, or failed (history)
  sync       \* the syncs in flight

vars == <<now, arrived, stored, cursor, missed, sync>>

Sync == [step : {"idle", "folders", "messages", "mark"},
         cursors : [Folders -> Nat],   \* as read at the start
         todo : SUBSET Folders,
         folder : Folders,
         since : Nat,                  \* the day of the search
         batch : SUBSET Messages,      \* fetched and not processed yet
         at : Nat]                     \* the new cursor

NoSync == [step |-> "idle", cursors |-> [f \in Folders |-> 0], todo |-> {},
           folder |-> Inbox, since |-> 0, batch |-> {}, at |-> 0]

Becomes(s, t) == sync' = [sync EXCEPT ![s] = t]

\* Mutated form: the search starts at the cursor itself.
MReaches(from, day) == from = 0 \/ day >= from

\* criteria.Since: a day before the cursor, or no lower bound without one.
Reaches(from, day) == from = 0 \/ day + Overlap >= from

\* What the search finds in a folder from a cursor.
Found(f, from) ==
  {m \in Messages : FolderOf[m] = f /\ arrived[m] # 0 /\ Reaches(from, arrived[m])}

-----------------------------------------------------------------------------
Init ==
  /\ now = 1
  /\ arrived = [m \in Messages |-> 0]
  /\ stored = {}
  /\ cursor = [f \in Folders |-> 0]
  /\ missed = {}
  /\ sync = [s \in Syncs |-> NoSync]

\* The mail server takes in a message.
Deliver(m) ==
  /\ arrived[m] = 0
  /\ arrived' = [arrived EXCEPT ![m] = now]
  /\ UNCHANGED <<now, stored, cursor, missed, sync>>

\* Midnight.  Bounds: the clock, and the days a sync spends on one folder.
Tick ==
  /\ now < MaxTime
  /\ \A s \in Syncs : sync[s].step \in {"messages", "mark"} => now < sync[s].since + MaxSync
  /\ now' = now + 1
  /\ UNCHANGED <<arrived, stored, cursor, missed, sync>>

\* ListMailFolders, whose failure leaves the inbox only, and
\* ListEmailSyncCursors.
StartSync(s) ==
  /\ sync[s].step = "idle"
  /\ \E todo \in {Folders} \cup (IF Faults THEN {{Inbox}} ELSE {}) :
       Becomes(s, [NoSync EXCEPT !.step = "folders", !.cursors = cursor, !.todo = todo])
  /\ UNCHANGED <<now, arrived, stored, cursor, missed>>

\* FetchNewMessages: the newest of what the search finds.
FetchNewMessages(s, f) ==
  LET t == sync[s]
      found == Found(f, t.cursors[f])
  IN  /\ t.step = "folders"
      /\ f \in t.todo
      /\ \E batch \in SUBSET found :
           /\ Cardinality(batch) <= FetchLimit
           /\ batch # found => Cardinality(batch) = FetchLimit
           /\ \A m \in batch, n \in found \ batch : arrived[n] <= arrived[m]
           /\ missed' = missed \cup (found \ batch)
           /\ Becomes(s, [t EXCEPT !.step = "messages", !.todo = @ \ {f}, !.folder = f,
                                   !.since = now, !.batch = batch])
      /\ UNCHANGED <<now, arrived, stored, cursor>>

\* Mutated form: the folder goes on to be marked although the fetch failed.
MFetchFails(s, f) ==
  LET t == sync[s]
  IN  /\ Faults
      /\ t.step = "folders"
      /\ f \in t.todo
      /\ Becomes(s, [t EXCEPT !.step = "messages", !.todo = @ \ {f}, !.folder = f,
                              !.since = now, !.batch = {}])
      /\ UNCHANGED <<now, arrived, stored, cursor, missed>>

\* The fetch fails: the folder is left for the next sync.
FetchFails(s, f) ==
  /\ Faults
  /\ sync[s].step = "folders"
  /\ f \in sync[s].todo
  /\ Becomes(s, [sync[s] EXCEPT !.todo = @ \ {f}])
  /\ UNCHANGED <<now, arrived, stored, cursor, missed>>

\* processFetchedMessage, a unit of work of its own.  One that fails is
\* reported and passed over.
processFetchedMessage(s, m) ==
  LET t == sync[s]
  IN  /\ t.step = "messages"
      /\ m \in t.batch
      /\ \/ stored' = stored \cup {m} /\ UNCHANGED missed
         \/ Faults /\ missed' = missed \cup {m} /\ UNCHANGED stored
      /\ Becomes(s, [t EXCEPT !.batch = @ \ {m}])
      /\ UNCHANGED <<now, arrived, cursor>>

\* time.Now() is read when the batch is done ...
FolderDone(s) ==
  /\ sync[s].step = "messages"
  /\ sync[s].batch = {}
  /\ Becomes(s, [sync[s] EXCEPT !.step = "mark", !.at = now])
  /\ UNCHANGED <<now, arrived, stored, cursor, missed>>

\* ... and overwrites the cursor, unless the statement fails.
MarkEmailFolderSynced(s) ==
  LET t == sync[s]
  IN  /\ t.step = "mark"
      /\ \/ cursor' = [cursor EXCEPT ![t.folder] = t.at]
         \/ Faults /\ UNCHANGED cursor
      /\ Becomes(s, [t EXCEPT !.step = "folders"])
      /\ UNCHANGED <<now, arrived, stored, missed>>

\* MarkEmailAccountSynced, which the rotation of accounts goes by.
MarkEmailAccountSynced(s) ==
  /\ sync[s].step = "folders"
  /\ sync[s].todo = {}
  /\ Becomes(s, NoSync)
  /\ UNCHANGED <<now, arrived, stored, cursor, missed>>

\* The process stops, or the request's context is cancelled.
Abandon(s) ==
  /\ Faults
  /\ sync[s].step # "idle"
  /\ Becomes(s, NoSync)
  /\ UNCHANGED <<now, arrived, stored, cursor, missed>>

-----------------------------------------------------------------------------
Advance(s) ==
  \/ StartSync(s)
  \/ \E f \in Folders : FetchNewMessages(s, f)
  \/ \E m \in Messages : processFetchedMessage(s, m)
  \/ FolderDone(s)
  \/ MarkEmailFolderSynced(s)
  \/ MarkEmailAccountSynced(s)

Next ==
  \/ \E m \in Messages : Deliver(m)
  \/ Tick
  \/ \E s \in Syncs : Advance(s)
  \/ \E s \in Syncs, f \in Folders : FetchFails(s, f)
  \/ \E s \in Syncs : Abandon(s)

Spec == Init /\ [][Next]_vars

\* runEmailSync ticks for as long as the process lives, and the mail server of
\* this mailbox answers or drops the connection: one that does neither keeps the
\* ticker, which is SyncRotation's subject.  Nothing is assumed of requests.
FairSpec == Spec /\ WF_vars(Advance(Ticker))

-----------------------------------------------------------------------------
(* Properties.                                                             *)

\* Cursors and days are days that have been; a sync holds what it fetched.
TypeOK ==
  /\ now \in Nat
  /\ arrived \in [Messages -> 0..now]
  /\ stored \subseteq Messages
  /\ cursor \in [Folders -> 0..now]
  /\ missed \subseteq Messages
  /\ sync \in [Syncs -> Sync]

\* The cursor never passes over mail by itself: a message in the mailbox that
\* is not stored, and that no sync has seen and given up, is within reach of
\* the next search, however many syncs overlap, fail or stop half way and
\* whatever arrives while they run.
NothingPassedOver ==
  \A m \in Messages :
    (arrived[m] # 0 /\ m \notin stored \cup missed)
    => Reaches(cursor[FolderOf[m]], arrived[m])

\* The ticker's sync stops half way, or a folder is not listed or not fetched.
Setback ==
  \/ Abandon(Ticker) /\ ~MarkEmailAccountSynced(Ticker)
  \/ \E f \in Folders : FetchFails(Ticker, f)
  \/ StartSync(Ticker) /\ sync'[Ticker].todo # Folders

\* Once the ticker's syncs have no setbacks any more, every message is stored
\* in the end, or seen and given up: the ticker alone brings it in, however
\* the syncs that users ask for fail, stop or get in its way.
MailBroughtIn ==
  <>[][~Setback]_vars =>
    \A m \in Messages : arrived[m] # 0 ~> m \in stored \cup missed
=============================================================================
