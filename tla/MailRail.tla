------------------------------ MODULE MailRail ------------------------------
(***************************************************************************)
(* MailRail: receipts, alerts and notices on their way to the operator.    *)
(* A call runs on the event loop without an await, so that calls never     *)
(* overlap; but it waits for the provider, and the process may die before  *)
(* the mail is in the ledger.  The keys already mailed are in memory only. *)
(***************************************************************************)
EXTENDS Integers, Sequences, FiniteSets, SequencesExt

CONSTANTS
    Letters,         \* what callers mail: [event, to, subject, head, rest]
    Inbounds,        \* what is ingested: [from, subject, head, rest]
    Callers,         \* who asks for an ingest: [bearer, agent]
    NoEvent,
    Postmaster, Token,
    MailMaxCalls, MailMaxFaults, MailMaxLives     \* bounds

ASSUME MailAssumption ==
    /\ \A l \in Letters : DOMAIN l = {"event", "to", "subject", "head", "rest"}
    /\ \A i \in Inbounds : DOMAIN i = {"from", "subject", "head", "rest"}
    /\ \A c \in Callers : DOMAIN c = {"bearer", "agent"}
    /\ {MailMaxCalls, MailMaxFaults, MailMaxLives} \subseteq Nat

VARIABLES
    live,        \* mails leave the process: enabled, and the provider is not the mock
    seen,        \* _SEEN_KEYS
    outbox,      \* ledger/mailrail.jsonl: [key, life, status]
    inbox,       \* ledger/mailrail_inbox.jsonl: the letters
    errand,      \* the call under way
    arrived,     \* what reached the recipients: [key, life]
    issues,      \* the operator's GitHub issues: one letter each
    results,     \* what callers were answered: [key, life, status]
    marred,      \* keys with a mail whose answer, row or call a fault took
    mailLife, mailCalls, mailFaults

mailVars == <<live, seen, outbox, inbox, errand, arrived, issues, results, marred,
              mailLife, mailCalls, mailFaults>>

NoMailCall == [at |-> "idle"]

\* The deduplication key: the caller's event, or else the recipient, the subject
\* and the beginning of the body.
MailKey(l) ==
    IF l.event # NoEvent THEN <<"event", l.event>> ELSE <<"content", l.to, l.subject, l.head>>

\* The operator's copy of an inbound letter.
NoticeKey(i) == <<"notify", i.from, i.subject, i.head>>

\* authorize_http: the operator's bearer and the postmaster's name.
Authorized(c) == c.bearer = Token /\ c.agent = Postmaster

MailInit ==
    /\ live \in BOOLEAN
    /\ seen = {} /\ outbox = <<>> /\ inbox = <<>>
    /\ errand = NoMailCall
    /\ arrived = <<>> /\ issues = <<>> /\ results = {} /\ marred = {}
    /\ mailLife = 1 /\ mailCalls = 0 /\ mailFaults = 0

MailFault == mailFaults < MailMaxFaults /\ mailFaults' = mailFaults + 1
NoMailFault == UNCHANGED mailFaults

NewMailCall == errand = NoMailCall /\ mailCalls < MailMaxCalls /\ mailCalls' = mailCalls + 1

Reply(key, status) ==
    results' = results \cup {[key |-> key, life |-> mailLife, status |-> status]}

\* send_agent_mail up to the provider: a key already mailed is answered at once.
Mail(key) ==
    IF key \in seen
    THEN errand' = NoMailCall /\ Reply(key, "deduplicated")
    ELSE errand' = [at |-> "dispatch", key |-> key] /\ UNCHANGED results

Send(l) ==
    /\ NewMailCall
    /\ Mail(MailKey(l))
    /\ UNCHANGED <<live, seen, outbox, inbox, arrived, issues, marred, mailLife, mailFaults>>

\* A settlement's receipt, with the transaction as its event when there is one.
Receipt == \E l \in Letters : Send(l)

\* A city call's alert always has an event: the transaction, the request or a nonce.
CityAlert == \E l \in Letters : l.event # NoEvent /\ Send(l)

\* A mail of the postmaster's tool; no other agent's call sends one.
PostmasterSends == \E c \in Callers : c.agent = Postmaster /\ \E l \in Letters : Send(l)

\* The provider is asked, or nobody is when mail is off or mocked.  Its answer may
\* be a failure, or be lost behind a mail that goes out.
Dispatch ==
    /\ errand.at = "dispatch"
    /\ \E reached, answered \in BOOLEAN :
        /\ errand' = [at |-> "record", key |-> errand.key, ok |-> answered]
        /\ IF live
           THEN /\ answered => reached
                /\ IF answered THEN NoMailFault ELSE MailFault
           ELSE answered /\ ~reached /\ NoMailFault
        /\ arrived' = IF reached THEN Append(arrived, [key |-> errand.key, life |-> mailLife]) ELSE arrived
        /\ marred' = IF answered THEN marred ELSE marred \cup {errand.key}
    /\ UNCHANGED <<live, seen, outbox, inbox, issues, results, mailLife, mailCalls>>

StatusOf(ok) == IF ok THEN "sent" ELSE "dispatch_failed"

\* Mutant: only a mail that was sent is remembered.
Record_IfSent ==
    /\ errand.at = "record"
    /\ outbox' = Append(outbox, [key |-> errand.key, life |-> mailLife, status |-> StatusOf(errand.ok)])
    /\ seen' = IF errand.ok THEN seen \cup {errand.key} ELSE seen
    /\ Reply(errand.key, StatusOf(errand.ok))
    /\ errand' = NoMailCall
    /\ UNCHANGED <<live, inbox, arrived, issues, marred, mailLife, mailCalls, mailFaults>>

\* The row, the key and the answer, in one step; a failed append is only logged.
Record ==
    /\ errand.at = "record"
    /\ \/ /\ outbox' = Append(outbox, [key |-> errand.key, life |-> mailLife, status |-> StatusOf(errand.ok)])
          /\ NoMailFault /\ UNCHANGED marred
       \/ MailFault /\ marred' = marred \cup {errand.key} /\ UNCHANGED outbox
    /\ seen' = seen \cup {errand.key}
    /\ Reply(errand.key, StatusOf(errand.ok))
    /\ errand' = NoMailCall
    /\ UNCHANGED <<live, inbox, arrived, issues, mailLife, mailCalls>>

\* An inbound letter of the operator's agent: its row, then the operator is told.
Ingest ==
    /\ NewMailCall
    /\ \E c \in Callers : Authorized(c)
    /\ \E i \in Inbounds :
        /\ \/ inbox' = Append(inbox, i) /\ NoMailFault /\ UNCHANGED marred
           \/ MailFault /\ marred' = marred \cup {NoticeKey(i)} /\ UNCHANGED inbox
        /\ errand' = [at |-> "issue", letter |-> i]
    /\ UNCHANGED <<live, seen, outbox, arrived, issues, results, mailLife>>

\* notify_operator with a GitHub token: an issue for every letter, and an e-mail for
\* every key.
Tell ==
    /\ errand.at = "issue"
    /\ \/ issues' = Append(issues, errand.letter) /\ NoMailFault /\ UNCHANGED marred
       \/ MailFault /\ marred' = marred \cup {NoticeKey(errand.letter)} /\ UNCHANGED issues
    /\ Mail(NoticeKey(errand.letter))
    /\ UNCHANGED <<live, seen, outbox, inbox, arrived, mailLife, mailCalls>>

\* The process dies and comes back with the ledgers.
MailRestart ==
    /\ mailLife < MailMaxLives /\ mailLife' = mailLife + 1
    /\ marred' = CASE errand.at = "idle" -> marred
                   [] errand.at = "issue" -> marred \cup {NoticeKey(errand.letter)}
                   [] OTHER -> marred \cup {errand.key}
    /\ errand' = NoMailCall /\ seen' = {}
    /\ UNCHANGED <<live, outbox, inbox, arrived, issues, results, mailCalls, mailFaults>>

MailNext ==
    \/ Receipt \/ CityAlert \/ PostmasterSends
    \/ Dispatch \/ Record \/ Ingest \/ Tell \/ MailRestart

-----------------------------------------------------------------------------
(* Properties. *)

\* In one life of the process no key reaches a recipient twice, with answers lost
\* behind mails that went out, retried calls, and an inbound letter ingested again.
MailOncePerLife ==
    \A i, j \in DOMAIN arrived : arrived[i] = arrived[j] => i = j

Tried(key, n) == \E i \in DOMAIN outbox : outbox[i].key = key /\ outbox[i].life = n

\* Ledger, recipients and answers tell one story, but for the keys a fault touched:
\* a live mail has a row of status sent exactly if it arrived, a suppressed one
\* stands behind a row of the same life, and every inbound letter has its issue and
\* the operator's copy in the outbox.
MailLedgerIsTrue ==
    /\ live =>
        /\ \A i \in DOMAIN outbox :
            outbox[i].status = "sent" =>
                [key |-> outbox[i].key, life |-> outbox[i].life] \in ToSet(arrived)
        /\ \A i \in DOMAIN arrived :
            \/ arrived[i].key \in marred
            \/ errand.at = "record" /\ errand.key = arrived[i].key
            \/ \E j \in DOMAIN outbox :
                /\ outbox[j].key = arrived[i].key /\ outbox[j].life = arrived[i].life
                /\ outbox[j].status = "sent"
    /\ \A r \in results :
        r.status = "deduplicated" /\ r.key \notin marred => Tried(r.key, r.life)
    /\ \A i \in DOMAIN inbox :
        LET key == NoticeKey(inbox[i])
        IN  \/ key \in marred
            \/ errand.at = "issue"
            \/ /\ Cardinality({n \in DOMAIN issues : issues[n] = inbox[i]}) =
                  Cardinality({n \in DOMAIN inbox : inbox[n] = inbox[i]})
               /\ \/ \E j \in DOMAIN outbox : outbox[j].key = key
                  \/ errand.at # "idle" /\ errand.key = key

\* A mail arrives once, and what the books say of it is what happened to it: a retry
\* may neither send again nor hide that nothing was sent.
MailIsTrue == MailOncePerLife /\ MailLedgerIsTrue
=============================================================================
