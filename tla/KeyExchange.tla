---------------------------- MODULE KeyExchange ----------------------------
(***************************************************************************)
(* BaseDecryptionExtensions of core/encryption/src/decryptionExtensions.ts *)
(* with its subclass in the client: the devices of a stream decrypt its    *)
(* events, solicit the session keys they miss, and answer each other's     *)
(* solicitations through the stream and through their inboxes.             *)
(*                                                                         *)
(* A device does one thing per tick.  A tick takes an item from a queue,   *)
(* awaits, and acts; between the two the queues grow and the process may   *)
(* stop.  Delays are left to the scheduler, and so is the order in which   *)
(* the items of one queue come up, which depends on delays and on the      *)
(* streams that have priority.  There is one event per session.            *)
(***************************************************************************)
EXTENDS Naturals, Sequences, FiniteSets

CONSTANTS Device, SessionId,
          KeyBounds   \* the bounds under which the exchange is explored

\* The keys that the devices start with, the events that they have to decrypt, and how
\* often something goes wrong.
KeyBound ==
  [keys : [Device -> SUBSET SessionId],
   present : SUBSET Device,      \* the devices that take part
   events : [Device -> SUBSET SessionId],   \* those that reach the view of a device
   joined : SUBSET Device,       \* the members of the stream at the start
   restarts : [Device -> Nat],
   lostAsks : Nat,               \* solicitations that are not added to the stream
   lostShares : Nat,             \* key messages that do not reach an inbox
   lostDownloads : Nat,          \* downloads of older key messages that fail
   errors : Nat,                 \* decryptions that fail, and not for want of a key
   badSessions : Nat]            \* key messages that are not wholly processed

ASSUME KeyAssumption == KeyBounds \subseteq KeyBound

VARIABLES sessionKeys,         \* per device: the sessions of its crypto store
          received,            \* per device: the events its view has
          decrypted,
          encryptedContent,    \* the queues
          newGroupSession,
          decryptionRetries,
          missingKeys,         \* whether there is an item for the stream
          keySolicitations,    \* per device that solicits: the item, or NoAsk
          decryptionFailures,
          abandoned,           \* events whose retry failed, and not for want of a key
          task,                \* the tick in progress
          priorityTasks,       \* the key messages that are still to be downloaded
          upToDate,            \* per device: those of "stream" and "inbox" up to date
          member,              \* the devices whose user has joined
          solicitations,       \* the stream on the node: the solicitation of a device
          feed,                \* solicitations that are on their way to a device
          own,                 \* the device's own solicitation as its view has it
          inbox,               \* the inbox stream on the node
          fetched,             \* how much of it the device has enqueued
          acked,               \* how much of it the device has acknowledged
          spoiled,             \* history: the keys of messages that failed
          mishaps, keyBound

keyQueues == <<encryptedContent, newGroupSession, decryptionRetries, missingKeys,
                 keySolicitations, decryptionFailures>>
nodeVars == <<solicitations, feed, own, inbox, fetched, acked>>
lossVars == <<abandoned, spoiled>>
modeVars == <<priorityTasks, upToDate, member, mishaps, lossVars>>
keyVars == <<sessionKeys, received, decrypted, keyQueues, task, modeVars, nodeVars>>

NoAsk == [isNewDevice |-> FALSE, sessionIds |-> {}]
Idle == [kind |-> "idle"]

KeyTypeOK ==
  /\ sessionKeys \in [Device -> SUBSET SessionId]
  /\ received \in [Device -> SUBSET SessionId] /\ decrypted \in [Device -> SUBSET SessionId]
  /\ encryptedContent \in [Device -> SUBSET SessionId]
  /\ decryptionRetries \in [Device -> SUBSET SessionId]
  /\ decryptionFailures \in [Device -> SUBSET SessionId]
  /\ abandoned \in [Device -> SUBSET SessionId] /\ spoiled \in [Device -> SUBSET SessionId]
  /\ newGroupSession \in [Device -> Seq(SUBSET SessionId)]
  /\ priorityTasks \in [Device -> Seq(SUBSET SessionId)]
  /\ missingKeys \in [Device -> BOOLEAN]
  /\ upToDate \in [Device -> SUBSET {"stream", "inbox"}] /\ member \in SUBSET Device
  /\ \A d \in Device : acked[d] =< fetched[d] /\ fetched[d] =< Len(inbox[d])
  /\ \A d \in Device : task[d].kind \in
       {"idle", "session", "content", "retry", "solicit", "fulfill", "share"}

KeyInit ==
  /\ keyBound \in KeyBounds
  /\ sessionKeys = keyBound.keys
  /\ received = [d \in Device |-> {}] /\ decrypted = [d \in Device |-> {}]
  /\ encryptedContent = [d \in Device |-> {}] /\ newGroupSession = [d \in Device |-> << >>]
  /\ decryptionRetries = [d \in Device |-> {}] /\ missingKeys = [d \in Device |-> FALSE]
  /\ keySolicitations = [d \in Device |-> [x \in Device |-> NoAsk]]
  /\ decryptionFailures = [d \in Device |-> {}] /\ abandoned = [d \in Device |-> {}]
  /\ spoiled = [d \in Device |-> {}]
  /\ task = [d \in Device |-> Idle] /\ upToDate = [d \in Device |-> {"stream", "inbox"}]
  /\ priorityTasks = [d \in Device |-> << >>] /\ member = keyBound.joined
  /\ solicitations = [d \in Device |-> NoAsk] /\ own = [d \in Device |-> NoAsk]
  /\ feed = [d \in Device |-> << >>]
  /\ inbox = [d \in Device |-> << >>] /\ fetched = [d \in Device |-> 0]
  /\ acked = [d \in Device |-> 0]
  /\ mishaps = [restarts |-> [d \in Device |-> 0], lostAsks |-> 0, lostShares |-> 0,
                lostDownloads |-> 0, errors |-> 0, badSessions |-> 0]

(***************************************************************************)
(* The queues are filled.                                                  *)
(***************************************************************************)

\* enqueueNewEncryptedContent
EnqueueNewEncryptedContent(d, s) ==
  /\ s \in keyBound.events[d] \ received[d]
  /\ received' = [received EXCEPT ![d] = @ \cup {s}]
  /\ encryptedContent' = [encryptedContent EXCEPT ![d] = @ \cup {s}]
  /\ UNCHANGED <<sessionKeys, decrypted, newGroupSession, decryptionRetries, missingKeys,
                 keySolicitations, decryptionFailures, task, modeVars, nodeVars>>

\* enqueueNewGroupSessions: the next message of the inbox is confirmed.
EnqueueNewGroupSessions(d) ==
  /\ fetched[d] < Len(inbox[d])
  /\ fetched' = [fetched EXCEPT ![d] = @ + 1]
  /\ newGroupSession' = [newGroupSession EXCEPT ![d] = Append(@, inbox[d][fetched'[d]])]
  /\ UNCHANGED <<sessionKeys, received, decrypted, encryptedContent, decryptionRetries,
                 missingKeys, keySolicitations, decryptionFailures, task, modeVars,
                 solicitations, feed, own, inbox, acked>>

\* A solicitation that asks for nothing only clears the one in the queue.
Queued(ask) == IF ask.sessionIds # {} \/ ask.isNewDevice THEN ask ELSE NoAsk

\* enqueueKeySolicitation, as applySolicitation and applyFulfillment call it for the
\* next event of the stream.
EnqueueKeySolicitation(d) ==
  /\ feed[d] # << >>
  /\ feed' = [feed EXCEPT ![d] = Tail(@)]
  /\ LET e == Head(feed[d])
     IN \/ /\ e.device = d /\ own' = [own EXCEPT ![d] = e.ask]
           /\ UNCHANGED keySolicitations
        \/ /\ e.device # d /\ UNCHANGED own
           /\ keySolicitations' = [keySolicitations EXCEPT ![d][e.device] = Queued(e.ask)]
  /\ UNCHANGED <<sessionKeys, received, decrypted, encryptedContent, newGroupSession,
                 decryptionRetries, missingKeys, decryptionFailures, task, modeVars,
                 solicitations, inbox, fetched, acked>>

\* setStreamUpToDate
SetStreamUpToDate(d, stream) ==
  /\ stream \notin upToDate[d]
  /\ upToDate' = [upToDate EXCEPT ![d] = @ \cup {stream}]
  /\ UNCHANGED <<sessionKeys, received, decrypted, keyQueues, task, nodeVars,
                 priorityTasks, member, mishaps, lossVars>>

HasFailures_Queued(d) == missingKeys[d]

HasFailures(d) == decryptionFailures[d] # {}

\* The user joins the stream: retryDecryptionFailures.
RetryDecryptionFailures(d) ==
  /\ d \notin member /\ member' = member \cup {d}
  /\ missingKeys' = [missingKeys EXCEPT ![d] = HasFailures(d)]
  /\ UNCHANGED <<sessionKeys, received, decrypted, encryptedContent, newGroupSession,
                 decryptionRetries, keySolicitations, decryptionFailures, task,
                 priorityTasks, upToDate, nodeVars, mishaps, lossVars>>

(***************************************************************************)
(* tick: one item is taken, in the order of the queues.                    *)
(***************************************************************************)

\* checkStartTicking: one tick at a time, once the inbox is up to date.
Ticking(d) == task[d] = Idle /\ "inbox" \in upToDate[d]

\* The queues that tick looks at before the items that have a date.
Urgent(d) == priorityTasks[d] # << >> \/ newGroupSession[d] # << >> \/ encryptedContent[d] # {}

\* dequeueUpToDate, when the item is due.
Due(d) == Ticking(d) /\ ~Urgent(d) /\ "stream" \in upToDate[d]

\* The priority task of start: downloadNewMessages, which may fail.
DownloadNewMessages(d) ==
  /\ Ticking(d) /\ priorityTasks[d] # << >>
  /\ priorityTasks' = [priorityTasks EXCEPT ![d] = << >>]
  /\ \/ /\ newGroupSession' = [newGroupSession EXCEPT ![d] = @ \o priorityTasks[d]]
        /\ UNCHANGED <<mishaps, spoiled>>
     \/ /\ mishaps.lostDownloads < keyBound.lostDownloads
        /\ mishaps' = [mishaps EXCEPT !.lostDownloads = @ + 1]
        /\ spoiled' = [spoiled EXCEPT ![d] =
                         @ \cup UNION {priorityTasks[d][i] : i \in DOMAIN priorityTasks[d]}]
        /\ UNCHANGED newGroupSession
  /\ UNCHANGED <<sessionKeys, received, decrypted, encryptedContent, decryptionRetries,
                 missingKeys, keySolicitations, decryptionFailures, abandoned, task, upToDate,
                 member, nodeVars>>

TakeNewGroupSession(d) ==
  /\ Ticking(d) /\ priorityTasks[d] = << >> /\ newGroupSession[d] # << >>
  /\ newGroupSession' = [newGroupSession EXCEPT ![d] = Tail(@)]
  /\ task' = [task EXCEPT ![d] = [kind |-> "session", ids |-> Head(newGroupSession[d])]]
  /\ UNCHANGED <<sessionKeys, received, decrypted, encryptedContent, decryptionRetries,
                 missingKeys, keySolicitations, decryptionFailures, modeVars, nodeVars>>

TakeEncryptedContent(d, s) ==
  /\ Ticking(d) /\ priorityTasks[d] = << >> /\ newGroupSession[d] = << >>
  /\ s \in encryptedContent[d]
  /\ encryptedContent' = [encryptedContent EXCEPT ![d] = @ \ {s}]
  /\ task' = [task EXCEPT ![d] = [kind |-> "content", id |-> s]]
  /\ UNCHANGED <<sessionKeys, received, decrypted, newGroupSession, decryptionRetries,
                 missingKeys, keySolicitations, decryptionFailures, modeVars, nodeVars>>

TakeDecryptionRetry(d, s) ==
  /\ Due(d) /\ s \in decryptionRetries[d]
  /\ decryptionRetries' = [decryptionRetries EXCEPT ![d] = @ \ {s}]
  /\ task' = [task EXCEPT ![d] = [kind |-> "retry", id |-> s]]
  /\ UNCHANGED <<sessionKeys, received, decrypted, encryptedContent, newGroupSession,
                 missingKeys, keySolicitations, decryptionFailures, modeVars, nodeVars>>

\* processMissingKeys up to its first await: nothing is sent when nothing is missing,
\* to a stream the user has not joined, or when the view has this very solicitation.
TakeMissingKeys(d) ==
  /\ Due(d) /\ missingKeys[d]
  /\ missingKeys' = [missingKeys EXCEPT ![d] = FALSE]
  /\ LET missing == decryptionFailures[d]
         send == /\ missing # {} /\ d \in member
                 /\ ~own[d].isNewDevice /\ own[d].sessionIds # missing
     IN task' = [task EXCEPT ![d] = IF send THEN [kind |-> "solicit", ids |-> missing]
                                    ELSE Idle]
  /\ UNCHANGED <<sessionKeys, received, decrypted, encryptedContent, newGroupSession,
                 decryptionRetries, keySolicitations, decryptionFailures, modeVars, nodeVars>>

\* processKeySolicitation up to its first message: the sessions to reply with.
TakeKeySolicitation(d, x) ==
  /\ Due(d) /\ keySolicitations[d][x] # NoAsk
  /\ keySolicitations' = [keySolicitations EXCEPT ![d][x] = NoAsk]
  /\ LET ask == keySolicitations[d][x]
         reply == IF ask.isNewDevice THEN sessionKeys[d] ELSE sessionKeys[d] \cap ask.sessionIds
     IN task' = [task EXCEPT ![d] =
                   IF reply = {} THEN Idle
                   ELSE [kind |-> "fulfill", to |-> x, ids |-> reply, new |-> ask.isNewDevice]]
  /\ UNCHANGED <<sessionKeys, received, decrypted, encryptedContent, newGroupSession,
                 decryptionRetries, missingKeys, decryptionFailures, modeVars, nodeVars>>

(***************************************************************************)
(* The rest of the tick.                                                   *)
(***************************************************************************)

Ends(d) == task' = [task EXCEPT ![d] = Idle]

Unblocked_None(d, needed) == {}

\* The failures that wait for keys that are imported.
Unblocked(d, needed) == needed \cap decryptionFailures[d]

AckedAfter_Early(d, needed) == IF needed # {} THEN fetched[d] ELSE acked[d]

\* ackInboxStream, unless the message brings nothing new or others are left.
AckedAfter(d, needed) ==
  IF needed # {} /\ newGroupSession[d] = << >> THEN fetched[d] ELSE acked[d]

\* The message cannot be decrypted or stored, a key not imported, or the inbox not acknowledged.
BadSession ==
  /\ mishaps.badSessions < keyBound.badSessions
  /\ mishaps' = [mishaps EXCEPT !.badSessions = @ + 1]

\* processNewGroupSession: the keys that are new are imported, the failures that wait
\* for them go back to the queue, and when no message is left the inbox is acknowledged
\* up to the last miniblock of its view.  importSessionKeys logs the keys that it cannot
\* import, and the rest is done for those too.  The acknowledgement may fail; and when the
\* message cannot be decrypted or stored the tick ends, and the message is not taken again.
ProcessNewGroupSession(d) ==
  /\ task[d].kind = "session" /\ Ends(d)
  /\ LET needed == task[d].ids \ sessionKeys[d]
         again == Unblocked(d, needed)
     IN \/ \E lost \in SUBSET needed :
             /\ sessionKeys' = [sessionKeys EXCEPT ![d] = @ \cup (needed \ lost)]
             /\ spoiled' = [spoiled EXCEPT ![d] = @ \cup lost]
             /\ encryptedContent' = [encryptedContent EXCEPT ![d] = @ \cup again]
             /\ decryptionFailures' = [decryptionFailures EXCEPT ![d] = @ \ again]
             /\ \/ /\ acked' = [acked EXCEPT ![d] = AckedAfter(d, needed)]
                   /\ IF lost = {} THEN UNCHANGED mishaps ELSE BadSession
                \/ needed # {} /\ newGroupSession[d] = << >> /\ BadSession /\ UNCHANGED acked
        \/ /\ needed # {} /\ BadSession
           /\ spoiled' = [spoiled EXCEPT ![d] = @ \cup needed]
           /\ UNCHANGED <<sessionKeys, encryptedContent, decryptionFailures, acked>>
  /\ UNCHANGED <<received, decrypted, newGroupSession, decryptionRetries, missingKeys,
                 keySolicitations, abandoned, priorityTasks, upToDate, member, solicitations,
                 feed, own, inbox, fetched>>

\* decryptGroupEvent throws something else than a missing session: the cleartexts cannot be
\* read or written, or the event cannot be decrypted with its key.
OtherError ==
  /\ mishaps.errors < keyBound.errors
  /\ mishaps' = [mishaps EXCEPT !.errors = @ + 1]

\* processEncryptedContentItem: an event that is not decrypted is tried once more.
ProcessEncryptedContentItem(d) ==
  /\ task[d].kind = "content" /\ Ends(d)
  /\ LET s == task[d].id
     IN \/ /\ s \in sessionKeys[d] /\ UNCHANGED <<decryptionRetries, mishaps>>
           /\ decrypted' = [decrypted EXCEPT ![d] = @ \cup {s}]
        \/ /\ (s \notin sessionKeys[d] /\ UNCHANGED mishaps) \/ OtherError
           /\ decryptionRetries' = [decryptionRetries EXCEPT ![d] = @ \cup {s}]
           /\ UNCHANGED decrypted
  /\ UNCHANGED <<sessionKeys, received, encryptedContent, newGroupSession, missingKeys,
                 keySolicitations, decryptionFailures, priorityTasks, upToDate, member, lossVars,
                 nodeVars>>

\* processDecryptionRetry: only an event whose session is missing goes to the failures; one
\* that fails otherwise is shown with its error and is not tried again.
ProcessDecryptionRetry(d) ==
  /\ task[d].kind = "retry" /\ Ends(d)
  /\ LET s == task[d].id
     IN \/ /\ s \in sessionKeys[d]
           /\ decrypted' = [decrypted EXCEPT ![d] = @ \cup {s}]
           /\ UNCHANGED <<decryptionFailures, missingKeys, abandoned, mishaps>>
        \/ /\ s \notin sessionKeys[d]
           /\ decryptionFailures' = [decryptionFailures EXCEPT ![d] = @ \cup {s}]
           /\ missingKeys' = [missingKeys EXCEPT ![d] = TRUE]
           /\ UNCHANGED <<decrypted, abandoned, mishaps>>
        \/ /\ OtherError /\ abandoned' = [abandoned EXCEPT ![d] = @ \cup {s}]
           /\ UNCHANGED <<decrypted, decryptionFailures, missingKeys>>
  /\ UNCHANGED <<sessionKeys, received, encryptedContent, newGroupSession, decryptionRetries,
                 keySolicitations, priorityTasks, upToDate, member, spoiled, nodeVars>>

\* The node has x's solicitation and sends it to the views of the stream.
Publish(x, ask) ==
  /\ solicitations' = [solicitations EXCEPT ![x] = ask]
  /\ feed' = [d \in Device |-> IF d \in keyBound.present
                            THEN Append(feed[d], [device |-> x, ask |-> ask]) ELSE feed[d]]

\* processMissingKeys from its await: the solicitation, which replaces the device's
\* earlier one (applyKeySolicitation), or is lost.
SendKeySolicitation(d) ==
  /\ task[d].kind = "solicit" /\ Ends(d)
  /\ LET new == sessionKeys[d] = {}
     IN \/ /\ Publish(d, [isNewDevice |-> new,
                          sessionIds |-> IF new THEN {} ELSE task[d].ids])
           /\ UNCHANGED mishaps
        \/ /\ mishaps.lostAsks < keyBound.lostAsks
           /\ mishaps' = [mishaps EXCEPT !.lostAsks = @ + 1]
           /\ UNCHANGED <<solicitations, feed>>
  /\ UNCHANGED <<sessionKeys, received, decrypted, keyQueues, priorityTasks, upToDate,
                 member, lossVars, own, inbox, fetched, acked>>

\* validKeyFulfillment
ValidKeyFulfillment(x, ids) ==
  solicitations[x].isNewDevice \/ solicitations[x].sessionIds \cap ids # {}

\* sendKeyFulfillment: the node takes the fulfilment (applyKeyFulfillment), and then the
\* keys are shared; or it refuses it and the tick ends.
SendKeyFulfillment(d) ==
  /\ task[d].kind = "fulfill"
  /\ LET x == task[d].to
         ids == IF task[d].new THEN {} ELSE task[d].ids
     IN \/ /\ ValidKeyFulfillment(x, ids)
           /\ Publish(x, [isNewDevice |-> FALSE,
                          sessionIds |-> solicitations[x].sessionIds \ ids])
           /\ task' = [task EXCEPT ![d] = [kind |-> "share", to |-> x, ids |-> task[d].ids]]
        \/ /\ ~ValidKeyFulfillment(x, ids) /\ Ends(d)
           /\ UNCHANGED <<solicitations, feed>>
  /\ UNCHANGED <<sessionKeys, received, decrypted, keyQueues, modeVars, own, inbox,
                 fetched, acked>>

\* encryptAndShareGroupSessions: an error is logged.
EncryptAndShareGroupSessions(d) ==
  /\ task[d].kind = "share" /\ Ends(d)
  /\ \/ /\ inbox' = [inbox EXCEPT ![task[d].to] = Append(@, task[d].ids)]
        /\ UNCHANGED mishaps
     \/ /\ mishaps.lostShares < keyBound.lostShares
        /\ mishaps' = [mishaps EXCEPT !.lostShares = @ + 1]
        /\ UNCHANGED inbox
  /\ UNCHANGED <<sessionKeys, received, decrypted, keyQueues, priorityTasks, upToDate,
                 member, lossVars, solicitations, feed, own, fetched, acked>>

\* The events without a stored cleartext.
Unread(d) == received[d] \ decrypted[d]

\* The process of d stops and starts again.  What it stored stays: the crypto store, the
\* cleartexts.  The view of the stream, loaded anew, hands over the events without
\* cleartext and the solicitations of its snapshot (initSolicitations); the one of the
\* inbox the messages from its snapshot on, the n-th; what is between the last
\* acknowledgement and that is for downloadNewMessages.
Restart(d) ==
  /\ mishaps.restarts[d] < keyBound.restarts[d]
  /\ mishaps' = [mishaps EXCEPT !.restarts[d] = @ + 1]
  /\ Ends(d) /\ upToDate' = [upToDate EXCEPT ![d] = {}]
  /\ encryptedContent' = [encryptedContent EXCEPT ![d] = Unread(d)]
  /\ decryptionRetries' = [decryptionRetries EXCEPT ![d] = {}]
  /\ decryptionFailures' = [decryptionFailures EXCEPT ![d] = {}]
  /\ abandoned' = [abandoned EXCEPT ![d] = {}]
  /\ missingKeys' = [missingKeys EXCEPT ![d] = FALSE]
  /\ feed' = [feed EXCEPT ![d] = << >>] /\ own' = [own EXCEPT ![d] = solicitations[d]]
  /\ keySolicitations' = [keySolicitations EXCEPT ![d] =
                            [x \in Device |-> IF x = d THEN NoAsk ELSE solicitations[x]]]
  /\ fetched' = [fetched EXCEPT ![d] = Len(inbox[d])]
  /\ \E n \in acked[d] .. Len(inbox[d]) :
       /\ newGroupSession' = [newGroupSession EXCEPT ![d] = SubSeq(inbox[d], n + 1, Len(inbox[d]))]
       /\ priorityTasks' = [priorityTasks EXCEPT ![d] = SubSeq(inbox[d], acked[d] + 1, n)]
  /\ UNCHANGED <<sessionKeys, received, decrypted, spoiled, member, solicitations, inbox, acked>>

Process(d) ==
  \/ ProcessNewGroupSession(d) \/ ProcessEncryptedContentItem(d)
  \/ ProcessDecryptionRetry(d) \/ SendKeySolicitation(d)
  \/ SendKeyFulfillment(d) \/ EncryptAndShareGroupSessions(d)

Take(d) ==
  \/ DownloadNewMessages(d) \/ TakeNewGroupSession(d)
  \/ \E s \in SessionId : TakeEncryptedContent(d, s) \/ TakeDecryptionRetry(d, s)
  \/ TakeMissingKeys(d) \/ \E x \in Device : TakeKeySolicitation(d, x)

KeyNext ==
  /\ UNCHANGED keyBound
  /\ \E d \in keyBound.present :
       \/ \E s \in SessionId : EnqueueNewEncryptedContent(d, s)
       \/ EnqueueNewGroupSessions(d) \/ EnqueueKeySolicitation(d)
       \/ \E stream \in {"stream", "inbox"} : SetStreamUpToDate(d, stream)
       \/ RetryDecryptionFailures(d) \/ Take(d) \/ Process(d) \/ Restart(d)

KeySpec == KeyInit /\ [][KeyNext]_<<keyVars, keyBound>>

\* The event loop runs the callbacks and, while there is something to take, the ticks;
\* every item comes due; the streams are delivered and come up to date.  Nobody has to
\* join, and the process need not restart.
KeyFairness ==
  \A d \in Device :
    /\ WF_keyVars(d \in keyBound.present /\ EnqueueNewGroupSessions(d))
    /\ WF_keyVars(d \in keyBound.present /\ EnqueueKeySolicitation(d))
    /\ \A stream \in {"stream", "inbox"} :
         WF_keyVars(d \in keyBound.present /\ SetStreamUpToDate(d, stream))
    /\ WF_keyVars(d \in keyBound.present /\ Take(d))
    /\ WF_keyVars(d \in keyBound.present /\ Process(d))

(***************************************************************************)
(* Properties.                                                             *)
(***************************************************************************)

\* No event is dropped on the way through the queues: an event that the view of a device
\* has is decrypted, or in a queue, in the tick in progress, with the failures that wait for
\* their key, or it was tried twice and shows an error that is not a missing key; and it never
\* waits for a key that the device has: importing a key puts every failure that needs it back
\* in the queue, whatever order the key, the first try and the retry came in and whatever failed
\* between (processEncryptedContentItem, processDecryptionRetry, processNewGroupSession).
NoEventStuck ==
  \A d \in Device :
    /\ received[d] \subseteq
         decrypted[d] \cup encryptedContent[d] \cup decryptionRetries[d] \cup decryptionFailures[d]
           \cup abandoned[d] \cup (IF task[d].kind \in {"content", "retry"} THEN {task[d].id} ELSE {})
    /\ decryptionFailures[d] \cap sessionKeys[d] = {}

\* What a device acknowledges, it has or has failed to take: the keys of every message up to
\* the last acknowledgement are in its crypto store, but for those of messages whose download or
\* processing failed, whichever way its process stopped and started in between; so no other
\* message that is not sent again is needed again (ackNewGroupSession, downloadNewInboxMessages).
AckedKeysStored ==
  \A d \in Device : \A n \in 1 .. acked[d] : inbox[d][n] \subseteq sessionKeys[d] \cup spoiled[d]

(***************************************************************************)
(* The inductive invariant behind these two.                               *)
(***************************************************************************)

Mishaps ==
  mishaps \in [restarts : [Device -> Nat], lostAsks : Nat, lostShares : Nat, lostDownloads : Nat,
               errors : Nat, badSessions : Nat]

TaskOK(t) ==
  /\ t.kind \in {"idle", "session", "content", "retry", "solicit", "fulfill", "share"}
  /\ t.kind = "session" => t.ids \in SUBSET SessionId
  /\ t.kind \in {"content", "retry"} => t.id \in SessionId
  /\ t.kind \in {"fulfill", "share"} => t.to \in Device /\ t.ids \in SUBSET SessionId

\* Message m is still to be processed by d.
Waits(d, m) ==
  \/ task[d].kind = "session" /\ task[d].ids = m
  \/ \E i \in DOMAIN newGroupSession[d] : newGroupSession[d][i] = m
  \/ \E i \in DOMAIN priorityTasks[d] : priorityTasks[d][i] = m

\* No tick has a message while older ones are to be downloaded; and a message that was
\* enqueued is in the crypto store, or waits, or failed, so that when none waits all can be
\* acknowledged.
InboxInv(d) ==
  /\ priorityTasks[d] # << >> => task[d].kind # "session"
  /\ \A n \in 1 .. fetched[d] :
       inbox[d][n] \subseteq sessionKeys[d] \cup spoiled[d] \/ Waits(d, inbox[d][n])

KeyInv ==
  /\ KeyTypeOK /\ keyBound \in KeyBounds
  /\ DOMAIN task = Device /\ (\A d \in Device : TaskOK(task[d]))
  /\ inbox \in [Device -> Seq(SUBSET SessionId)]
  /\ fetched \in [Device -> Nat] /\ acked \in [Device -> Nat]
  /\ Mishaps
  /\ \A d \in Device : InboxInv(d)
  /\ NoEventStuck /\ AckedKeysStored

\* The runs in which every key that is missing can be had: no message is lost or fails, no device
\* that has keys restarts, and a device without keys is answered by one that has them all
\* (the first answer clears the solicitation of a new device, complete or not).
Answerable ==
  /\ keyBound.lostAsks = 0 /\ keyBound.lostShares = 0 /\ keyBound.lostDownloads = 0
  /\ keyBound.badSessions = 0
  /\ UNION {keyBound.keys[d] : d \in Device} = SessionId
  /\ \A d \in Device : keyBound.keys[d] # {} => keyBound.restarts[d] = 0 /\ d \in keyBound.joined
  /\ \A d, h \in Device : keyBound.keys[d] = {} => keyBound.keys[h] \in {{}, SessionId}

\* The exchange works: the events in the views of the members are all decrypted in the
\* end when every key is with some device, but for those that failed twice and the second time
\* for another reason, and a user that joins after the decryption failed gets the keys too
\* (retryDecryptionFailures).
EventuallyDecrypted ==
  <>[](Answerable => \A d \in member : received[d] \subseteq decrypted[d] \cup abandoned[d])
=============================================================================
