---------------------------- MODULE LineChannels ----------------------------
(***************************************************************************)
(* The LINE channels of the organizations and the keys they hold           *)
(* (line_channels/models.py, services.py, views.py).  A key is rotated in  *)
(* a transaction of two statements: the active bundle is retired under a   *)
(* row lock, then the new one inserted, which a partial unique index on    *)
(* (channel, kind) may refuse.  The cipher, the KMS and the forms' checks  *)
(* of characters are abstracted: a bundle is its serial number.            *)
(***************************************************************************)
EXTENDS Naturals, FiniteSets

CONSTANTS
    Worker,      \* the web server's threads
    Org, ChannelId, Bot,
    Registered,  \* the channels there are at first: [<<org, id>> -> bot]
    MaxWork      \* bound: so many operations of the staff

KeyKind == {"CHANNEL_SECRET", "ACCESS_TOKEN"}

Channel == Org \X ChannelId

ASSUME RegisteredAssumption ==
    /\ DOMAIN Registered \subseteq Channel
    /\ \A c \in DOMAIN Registered : Registered[c] \in Bot
    /\ \A c, d \in DOMAIN Registered : c[1] = d[1] /\ Registered[c] = Registered[d] => c = d
ASSUME WorkAssumption == MaxWork \in Nat

VARIABLES
    channels,  \* LineChannel: [bot, is_active] of every channel that has a row
    bundles,   \* LineChannelKeyBundle: per channel and kind, the serial numbers
               \* of the active bundles and the last one given out
    pc, req,   \* what every thread does, and its local variables
    work       \* operations of the staff, faults and ticks so far

channelVars == <<channels, bundles>>

NoRequest == [none |-> TRUE]

NewKeys == [kind \in KeyKind |-> [active |-> {1}, last |-> 1]]

Goto(w, label, r) ==
    /\ pc' = [pc EXCEPT ![w] = label]
    /\ req' = [req EXCEPT ![w] = r]

Finish(w) == Goto(w, "idle", NoRequest)

Work == work < MaxWork /\ work' = work + 1

-----------------------------------------------------------------------------
(* store_secret *)

\* The thread that has retired a bundle and not yet committed holds its row.
Locked(w, c, kind) ==
    \E v \in Worker \ {w} :
        /\ pc[v] = "insert" /\ req[v].channel = c /\ req[v].kind = kind
        /\ req[v].retired \cap req[w].seen # {}

\* The form is valid; the UPDATE finds the bundles that are active as it starts.
RotateBegin(w, c, kind) ==
    /\ pc[w] = "idle" /\ c \in DOMAIN channels
    /\ Work
    /\ Goto(w, "retire", [channel |-> c, kind |-> kind, seen |-> bundles[c][kind].active])
    /\ UNCHANGED channelVars

ChannelSecretRotateView(w, c) == RotateBegin(w, c, "CHANNEL_SECRET")
ChannelAccessTokenRotateView(w, c) == RotateBegin(w, c, "ACCESS_TOKEN")

\* mutant (OneActiveKey): the bundle is retired before the transaction.
RetireCommitted(w) ==
    /\ pc[w] = "retire"
    /\ LET r == req[w] IN
       /\ ~Locked(w, r.channel, r.kind)
       /\ bundles' = [bundles EXCEPT ![r.channel][r.kind].active = @ \ r.seen]
       /\ Goto(w, "insert", [channel |-> r.channel, kind |-> r.kind, retired |-> r.seen])
    /\ UNCHANGED <<channels, work>>

\* A row that was locked is looked at again: only what is still active counts.
Retire(w) ==
    /\ pc[w] = "retire"
    /\ LET r == req[w]
           active == bundles[r.channel][r.kind].active
       IN  /\ ~Locked(w, r.channel, r.kind)
           /\ Goto(w, "insert",
                   [channel |-> r.channel, kind |-> r.kind, retired |-> r.seen \cap active])
    /\ UNCHANGED <<channelVars, work>>

\* uq_active_keybundle_per_kind refuses a second active bundle, and the view
\* answers with an error; else the transaction commits.
Insert(w) ==
    /\ pc[w] = "insert"
    /\ LET r == req[w]
           keys == bundles[r.channel][r.kind]
           left == keys.active \ r.retired
       IN  IF left # {}
           THEN UNCHANGED bundles
           ELSE bundles' = [bundles EXCEPT ![r.channel][r.kind] =
                              [active |-> {keys.last + 1}, last |-> keys.last + 1]]
    /\ Finish(w)
    /\ UNCHANGED <<channels, work>>

-----------------------------------------------------------------------------
(* The other views of the staff *)

\* OrganizationLineChannelCreateView: LINE names the bot of the access token; the
\* channel and both keys are stored in one transaction, unless the organization
\* has the channel or the bot already.
CreateChannel(org, id, bot) ==
    /\ Work
    /\ IF \E c \in DOMAIN channels : c[1] = org /\ (c[2] = id \/ channels[c].bot = bot)
       THEN UNCHANGED channelVars
       ELSE LET extended == DOMAIN channels \cup {<<org, id>>} IN
            /\ channels' = [c \in extended |-> IF c = <<org, id>>
                              THEN [bot |-> bot, is_active |-> TRUE] ELSE channels[c]]
            /\ bundles' = [c \in extended |-> IF c = <<org, id>> THEN NewKeys ELSE bundles[c]]
    /\ UNCHANGED <<pc, req>>

\* Only is_active is saved.
SetActive(c, is_active) ==
    /\ c \in DOMAIN channels /\ channels[c].is_active # is_active
    /\ Work
    /\ channels' = [channels EXCEPT ![c].is_active = is_active]
    /\ UNCHANGED <<bundles, pc, req>>

LineChannelDeactivateView(c) == SetActive(c, FALSE)
LineChannelActivateView(c) == SetActive(c, TRUE)

InitChannels ==
    /\ channels = [c \in DOMAIN Registered |-> [bot |-> Registered[c], is_active |-> TRUE]]
    /\ bundles = [c \in DOMAIN Registered |-> NewKeys]
    /\ pc = [w \in Worker |-> "idle"]
    /\ req = [w \in Worker |-> NoRequest]
    /\ work = 0

StaffStep(w) == Retire(w) \/ Insert(w)

StaffBegins ==
    \/ \E w \in Worker, c \in Channel :
          ChannelSecretRotateView(w, c) \/ ChannelAccessTokenRotateView(w, c)
    \/ \E org \in Org, id \in ChannelId, bot \in Bot : CreateChannel(org, id, bot)
    \/ \E c \in Channel : LineChannelDeactivateView(c) \/ LineChannelActivateView(c)

\* Every channel has exactly one active bundle of each kind at any time, so
\* get_secret neither finds none nor two, whatever rotations overlap, fail or
\* stop half way ("(line_channel, kind) で is_active=True は常に 1件").
OneActiveKey ==
    \A c \in DOMAIN channels, kind \in KeyKind : Cardinality(bundles[c][kind].active) = 1

=============================================================================
