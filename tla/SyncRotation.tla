----------------------------- MODULE SyncRotation -----------------------------
(***************************************************************************)
(* Which mailboxes get their turn: the account loop of SyncAccounts        *)
(* (internal/usecase/email.go) over ListSyncEnabledEmailAccounts           *)
(* (internal/adapters/postgres/ai_email.go), which takes a limited number  *)
(* of accounts, the longest unsynced first.  What happens inside one       *)
(* mailbox is FolderSync's subject.                                        *)
(*                                                                         *)
(* A sync works on the list it has read, one account after the other.  An  *)
(* account whose password or cursors cannot be read is passed over before  *)
(* last_synced_at is set and stays in front.  Only the dial to a mail      *)
(* server has a timeout (imap.go:175), the commands that follow have none: *)
(* a server that falls silent keeps the sync that talks to it.             *)
(***************************************************************************)
EXTENDS Naturals, Sequences, FiniteSets, SequencesExt

CONSTANTS
  Accounts,
  Broken,    \* accounts whose password, cursors or last_synced_at may fail
  Syncs,     \* syncs that may run at the same time
  Ticker,    \* the one that runEmailSync starts again and again
  limit,     \* limit[s]: 50 for the ticker, 1 to 100 for a request
  Managed    \* accounts that users switch off, switch on and delete

ASSUME SyncRotationAssumption ==
  /\ Broken \subseteq Accounts
  /\ Managed \subseteq Accounts
  /\ Ticker \in Syncs
  /\ limit \in [Syncs -> Nat \ {0}]

VARIABLES
  created,    \* accounts that have been created, deleted ones included
  unsynced,   \* last_synced_at is null: in order of created_at
  synced,     \* the others, in order of last_synced_at
  enabled,    \* sync_enabled
  queue,      \* queue[s]: the accounts a sync has still to visit
  silent      \* accounts whose mail server does not answer

vars == <<created, unsynced, synced, enabled, queue, silent>>

\* order by coalesce(last_synced_at, 'epoch'), created_at
Rotation == unsynced \o synced

\* The rows of email_accounts.
Rows == ToSet(Rotation)

Init ==
  /\ created = {}
  /\ unsynced = <<>>
  /\ synced = <<>>
  /\ enabled = {}
  /\ queue = [s \in Syncs |-> <<>>]
  /\ silent = {}

\* CreateAccount switches the sync on.
CreateAccount(a) ==
  /\ a \notin created
  /\ created' = created \cup {a}
  /\ unsynced' = Append(unsynced, a)
  /\ enabled' = enabled \cup {a}
  /\ UNCHANGED <<synced, queue, silent>>

\* UpdateAccount, as far as the rotation notices.
UpdateAccount(a) ==
  /\ a \in Rows \cap Managed
  /\ enabled' = IF a \in enabled THEN enabled \ {a} ELSE enabled \cup {a}
  /\ UNCHANGED <<created, unsynced, synced, queue, silent>>

DeleteAccount(a) ==
  /\ a \in Rows \cap Managed
  /\ unsynced' = Remove(unsynced, a)
  /\ synced' = Remove(synced, a)
  /\ enabled' = enabled \ {a}
  /\ UNCHANGED <<created, queue, silent>>

\* The first n accounts whose sync is on.
ListSyncEnabledEmailAccounts(n) ==
  LET ready == SelectSeq(Rotation, LAMBDA a : a \in enabled)
  IN  SubSeq(ready, 1, IF n < Len(ready) THEN n ELSE Len(ready))

\* SyncAccounts begins: a goroutine or request works on one list at a time.
StartSync(s) ==
  /\ queue[s] = <<>>
  /\ queue' = [queue EXCEPT ![s] = ListSyncEnabledEmailAccounts(limit[s])]
  /\ UNCHANGED <<created, unsynced, synced, enabled, silent>>

\* A mail server stops answering, or answers again.
FallSilent(a) ==
  /\ a \notin silent
  /\ silent' = silent \cup {a}
  /\ UNCHANGED <<created, unsynced, synced, enabled, queue>>

AnswerAgain(a) ==
  /\ a \in silent
  /\ silent' = silent \ {a}
  /\ UNCHANGED <<created, unsynced, synced, enabled, queue>>

\* The sync waits for a server that does not answer.
Hangs(s) == queue[s] # <<>> /\ Head(queue[s]) \in silent

\* Mutated form: last_synced_at is set on the first visit only.
MMarkOnce(s, a) ==
  /\ queue[s] # <<>> /\ ~Hangs(s)
  /\ a = Head(queue[s])
  /\ unsynced' = Remove(unsynced, a)
  /\ synced' = IF a \in Rows \ ToSet(synced) THEN Append(synced, a) ELSE synced
  /\ queue' = [queue EXCEPT ![s] = Tail(@)]
  /\ UNCHANGED <<created, enabled, silent>>

\* The mailbox has been visited and last_synced_at is set to now, unless the
\* account has been deleted since the list was read.
MarkEmailAccountSynced(s, a) ==
  /\ queue[s] # <<>> /\ ~Hangs(s)
  /\ a = Head(queue[s])
  /\ unsynced' = Remove(unsynced, a)
  /\ synced' = IF a \in Rows THEN Append(Remove(synced, a), a) ELSE synced
  /\ queue' = [queue EXCEPT ![s] = Tail(@)]
  /\ UNCHANGED <<created, enabled, silent>>

\* The secret or the cursors cannot be read, or the mark cannot be written: on
\* to the next account.
SkipAccount(s, a) ==
  /\ queue[s] # <<>>
  /\ a = Head(queue[s])
  /\ a \in Broken
  /\ queue' = [queue EXCEPT ![s] = Tail(@)]
  /\ UNCHANGED <<created, unsynced, synced, enabled, silent>>

\* A request goes away; nothing looks at its context while a server is waited
\* for.
Cancel(s) ==
  /\ s # Ticker
  /\ queue[s] # <<>> /\ ~Hangs(s)
  /\ queue' = [queue EXCEPT ![s] = <<>>]
  /\ UNCHANGED <<created, unsynced, synced, enabled, silent>>

-----------------------------------------------------------------------------
\* The next step of a sync.
Advance(s) ==
  \/ StartSync(s)
  \/ \E a \in Accounts : MarkEmailAccountSynced(s, a) \/ SkipAccount(s, a)

Next ==
  \/ \E a \in Accounts : CreateAccount(a) \/ UpdateAccount(a) \/ DeleteAccount(a)
  \/ \E a \in Accounts : FallSilent(a) \/ AnswerAgain(a)
  \/ \E s \in Syncs : Advance(s) \/ Cancel(s)

Spec == Init /\ [][Next]_vars

\* runEmailSync ticks for as long as the process lives, and a sync goes on
\* whenever it is not waiting for a server.  Nothing is assumed of mail servers,
\* nor of users and their requests.
FairSpec == Spec /\ WF_vars(Advance(Ticker))

-----------------------------------------------------------------------------
(* Properties.                                                             *)

\* All the ticker would take now are accounts that may fail (ai_email.go:105).
FrontBlocked ==
  LET front == ListSyncEnabledEmailAccounts(limit[Ticker])
  IN  Len(front) = limit[Ticker] /\ ToSet(front) \subseteq Broken

\* Every healthy mailbox whose sync stays on is visited again and again,
\* whatever requests, new accounts and deletions do, unless one of two things
\* starves it: a silent server that keeps the ticker waiting, or as many failing
\* accounts in front of the rotation as the ticker takes.
EveryMailboxVisited ==
  \A a \in Accounts \ Broken :
    <>[](a \in enabled) /\ <>[]~Hangs(Ticker) /\ <>[]~FrontBlocked
    => []<><<\E s \in Syncs : MarkEmailAccountSynced(s, a)>>_vars
=============================================================================
