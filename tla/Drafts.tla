---- MODULE Drafts ----
(***************************************************************************)
(* Subscription discovery (internal/service/subscriptiondiscovery): an     *)
(* agent prepares a preview of a subject's feeds, revises it, and confirms *)
(* one reviewed feed, which creates the subscription.  The provider's      *)
(* answers are outside: a preview is any member of Previews, and a fetch   *)
(* may fail.  A subject is a Bangumi id with a library season.             *)
(***************************************************************************)
EXTENDS Naturals, FiniteSets

CONSTANTS DraftIds,      \* random ids, never used twice
          Agents,        \* concurrent requests of the API and of the MCP server
          Previews,      \* [subject, feeds]: what the provider can answer
          MaxRevision,   \* bound of the model on the revisions of a draft
          MaxDrafts,     \* 200: drafts not yet confirmed
          PreviewGate    \* 2: previews prepared at the same time

VARIABLES drafts,   \* the table subscription_drafts
          tracked,  \* the subscriptions that drafts created
          agents,   \* what the request of each agent is doing
          shown,    \* history: the previews returned to agents
          answers   \* history: the confirmations answered with a subscription

draftVars == <<drafts, tracked, agents, shown, answers>>

NewDraft == "new draft"
ASSUME DraftAssumption == NewDraft \notin DraftIds

NoSubject == "no subject"
NoFeed == "no feed"
NoPreview == [subject |-> NoSubject, feeds |-> {}]
Feeds == UNION {p.feeds : p \in Previews}
FreshRow == [status |-> "unused", revision |-> 0, preview |-> NoPreview,
           expired |-> FALSE, choice |-> NoFeed]
Resting == [does |-> "rests"]

DraftsInit ==
    /\ drafts = [d \in DraftIds |-> FreshRow]
    /\ tracked = {} /\ shown = {} /\ answers = {}
    /\ agents = [a \in Agents |-> Resting]

-----------------------------------------------------------------------------
Outstanding == {d \in DraftIds : drafts[d].status = "open"}
Outdated == {d \in Outstanding : drafts[d].expired}

\* Mutated: the revision is not compared.
ClaimableAtAnyRevision(d, revision) ==
    drafts[d].status = "open" /\ ~drafts[d].expired

\* The condition of both compare-and-set updates: the row is at the revision
\* the request was made for, not confirmed, and has not expired.
Claimable(d, revision) ==
    /\ drafts[d].status = "open" /\ ~drafts[d].expired
    /\ drafts[d].revision = revision

\* Prepare passes the gate; a revision first looks at its draft.
StartPreview(a, d) ==
    /\ agents[a] = Resting
    /\ Cardinality({b \in Agents : agents[b].does = "previews"}) < PreviewGate
    /\ d \in DraftIds => Claimable(d, drafts[d].revision) /\ drafts[d].revision < MaxRevision
    /\ agents' = [agents EXCEPT ![a] =
           [does |-> "previews", draft |-> d,
            revision |-> IF d \in DraftIds THEN drafts[d].revision ELSE 0]]
    /\ UNCHANGED <<drafts, tracked, shown, answers>>

\* The provider refused or the request was cancelled: nothing is saved.
GiveUp(a) ==
    /\ agents[a] # Resting
    /\ agents' = [agents EXCEPT ![a] = Resting]
    /\ UNCHANGED <<drafts, tracked, shown, answers>>

Return(a, d, row) ==
    /\ agents' = [agents EXCEPT ![a] = Resting]
    /\ shown' = shown \cup {[draft |-> d, revision |-> row.revision, preview |-> row.preview]}
    /\ UNCHANGED <<tracked, answers>>

\* save: a new draft, after the expired ones were removed.
SaveNew(a, d, preview) ==
    LET row == [FreshRow EXCEPT !.status = "open", !.revision = 1, !.preview = preview]
    IN  /\ agents[a].does = "previews" /\ agents[a].draft = NewDraft
        /\ drafts[d].status = "unused"
        /\ Cardinality(Outstanding \ Outdated) < MaxDrafts
        /\ drafts' = [e \in DraftIds |->
               IF e = d THEN row
               ELSE IF e \in Outdated THEN [FreshRow EXCEPT !.status = "deleted"] ELSE drafts[e]]
        /\ Return(a, d, row)

\* save: the next revision of a draft; it renews the expiry.
SaveRevision(a, preview) ==
    LET d == agents[a].draft
        row == [drafts[d] EXCEPT !.revision = agents[a].revision + 1, !.preview = preview]
    IN  /\ agents[a].does = "previews" /\ d \in DraftIds
        /\ Claimable(d, agents[a].revision)
        /\ drafts' = [drafts EXCEPT ![d] = row]
        /\ Return(a, d, row)

-----------------------------------------------------------------------------
\* Mutated: the draft is thought to be enough to tell a second confirmation.
TrackedByDraft(subject, d) == \E s \in tracked : s.subject = subject /\ s.draft = d

Tracked(subject, d) == \E s \in tracked : s.subject = subject

Answer(d, revision, feed, s) ==
    answers' = answers \cup {[draft |-> d, revision |-> revision, feed |-> feed, made |-> s]}

\* confirmed: a confirmation that repeats the one the draft was confirmed with
\* gets the subscription it made, unless that was deleted.
Confirmed(d, revision, feed) ==
    /\ drafts[d].status = "confirmed"
    /\ drafts[d].revision = revision /\ drafts[d].choice = feed
    /\ \E s \in tracked : s.draft = d /\ Answer(d, revision, feed, s)

ConfirmAgain(a, d, revision, feed) ==
    /\ agents[a] = Resting
    /\ Confirmed(d, revision, feed)
    /\ UNCHANGED <<drafts, tracked, agents, shown>>

\* Confirm reads the draft and fetches the chosen feed again.
StartConfirm(a, d, feed) ==
    /\ agents[a] = Resting
    /\ drafts[d].status = "open" /\ ~drafts[d].expired
    /\ drafts[d].preview.subject # NoSubject /\ feed \in drafts[d].preview.feeds
    /\ agents' = [agents EXCEPT ![a] =
           [does |-> "confirms", draft |-> d, revision |-> drafts[d].revision,
            feed |-> feed, subject |-> drafts[d].preview.subject]]
    /\ UNCHANGED <<drafts, tracked, shown, answers>>

\* The transaction of Confirm: claim, look for the subject, create, record.
Claim(a) ==
    LET h == agents[a]
        made == [draft |-> h.draft, subject |-> h.subject, feed |-> h.feed]
    IN  /\ h.does = "confirms"
        /\ Claimable(h.draft, h.revision)
        /\ ~Tracked(h.subject, h.draft)
        /\ tracked' = tracked \cup {made}
        /\ drafts' = [drafts EXCEPT ![h.draft].status = "confirmed",
                                    ![h.draft].choice = h.feed,
                                    ![h.draft].preview = NoPreview]
        /\ Answer(h.draft, h.revision, h.feed, made)
        /\ agents' = [agents EXCEPT ![a] = Resting]
        /\ UNCHANGED shown

\* The claim found the draft confirmed by another request meanwhile; any other
\* refusal ends the request without an answer (GiveUp).
ClaimLost(a) ==
    LET h == agents[a]
    IN  /\ h.does = "confirms"
        /\ Confirmed(h.draft, h.revision, h.feed)
        /\ agents' = [agents EXCEPT ![a] = Resting]
        /\ UNCHANGED <<drafts, tracked, shown>>

-----------------------------------------------------------------------------
Expire(d) ==
    /\ d \in Outstanding \ Outdated
    /\ drafts' = [drafts EXCEPT ![d].expired = TRUE]
    /\ UNCHANGED <<tracked, agents, shown, answers>>

\* The user deletes a subscription.
Untrack(s) ==
    /\ tracked' = tracked \ {s}
    /\ UNCHANGED <<drafts, agents, shown, answers>>

DraftsNext ==
    \/ \E a \in Agents :
          \/ \E d \in DraftIds \cup {NewDraft} : StartPreview(a, d)
          \/ GiveUp(a)
          \/ \E preview \in Previews : \/ \E d \in DraftIds : SaveNew(a, d, preview)
                                       \/ SaveRevision(a, preview)
          \/ \E d \in DraftIds, feed \in Feeds :
                \/ StartConfirm(a, d, feed)
                \/ \E revision \in 1..MaxRevision : ConfirmAgain(a, d, revision, feed)
          \/ Claim(a)
          \/ ClaimLost(a)
    \/ \E d \in DraftIds : Expire(d)
    \/ \E s \in tracked : Untrack(s)

DraftsSpec == DraftsInit /\ [][DraftsNext]_draftVars

-----------------------------------------------------------------------------
\* Whatever is revised, confirmed twice or confirmed by two requests at once:
\* a confirmation is only answered with a subscription of the subject and the
\* feed shown to the agent under the revision it named, and all answers about
\* one draft name the same revision, the same feed and the same subscription.
ConfirmedAsReviewed ==
    /\ \A r \in answers :
          /\ r.made.feed = r.feed
          /\ \E s \in shown : /\ s.draft = r.draft /\ s.revision = r.revision
                              /\ s.preview.subject = r.made.subject
                              /\ r.feed \in s.preview.feeds
    /\ \A r, t \in answers : r.draft = t.draft => r = t

\* Two drafts of the same subject and season, confirmed concurrently, do not
\* make two subscriptions of it.
OneSubscriptionPerSubject ==
    \A s, t \in tracked : s.subject = t.subject => s = t
====
