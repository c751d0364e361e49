---- MODULE DraftsProofs ----
\* A confirmation is answered with what the agent reviewed, and a subject gets one
\* subscription, for every number of drafts, revisions, agents and previews.
EXTENDS Drafts, TLAPS

USE DraftAssumption

IsRow(r) == r = [status |-> r.status, revision |-> r.revision, preview |-> r.preview,
                 expired |-> r.expired, choice |-> r.choice]
IsAnswer(r) == r = [draft |-> r.draft, revision |-> r.revision, feed |-> r.feed, made |-> r.made]

TablesOK ==
    /\ drafts = [d \in DraftIds |-> drafts[d]] /\ \A d \in DraftIds : IsRow(drafts[d])
    /\ agents = [a \in Agents |-> agents[a]]

\* An agent saw this feed of this subject under this revision of the draft.
Reviewed(d, revision, subject, feed) ==
    \E s \in shown : /\ s.draft = d /\ s.revision = revision
                     /\ s.preview.subject = subject /\ feed \in s.preview.feeds

OpenIsShown ==
    \A d \in DraftIds : drafts[d].status = "open" =>
        \E s \in shown : /\ s.draft = d /\ s.revision = drafts[d].revision
                         /\ s.preview = drafts[d].preview

ConfirmingReviewed ==
    \A a \in Agents : agents[a].does = "confirms" =>
        /\ agents[a].draft \in DraftIds
        /\ Reviewed(agents[a].draft, agents[a].revision, agents[a].subject, agents[a].feed)

\* A confirmed draft keeps what it was confirmed with, and a subscription that
\* a draft made agrees with it.
TrackedConfirmed ==
    \A t \in tracked :
        /\ t.draft \in DraftIds /\ drafts[t.draft].status = "confirmed"
        /\ t.feed = drafts[t.draft].choice
        /\ Reviewed(t.draft, drafts[t.draft].revision, t.subject, t.feed)

OnePerDraft == \A s, t \in tracked : s.draft = t.draft => s = t

AnswersConfirmed ==
    \A r \in answers :
        /\ IsAnswer(r)
        /\ r.draft \in DraftIds /\ drafts[r.draft].status = "confirmed"
        /\ r.revision = drafts[r.draft].revision /\ r.feed = drafts[r.draft].choice
        /\ r.made.feed = r.feed
        /\ Reviewed(r.draft, r.revision, r.made.subject, r.feed)

AnswersAgree ==
    /\ \A r \in answers, s \in tracked : s.draft = r.draft => r.made = s
    /\ \A r, t \in answers : r.draft = t.draft => r.made = t.made

RequestsInv == TablesOK /\ OpenIsShown /\ ConfirmingReviewed
AnswersInv == TrackedConfirmed /\ OnePerDraft /\ AnswersConfirmed /\ AnswersAgree
DraftsInv == RequestsInv /\ AnswersInv /\ OneSubscriptionPerSubject

-----------------------------------------------------------------------------
LEMMA DraftsStart == DraftsInit => DraftsInv
<1> SUFFICES ASSUME DraftsInit PROVE DraftsInv
  OBVIOUS
<1>1. IsRow(FreshRow) /\ FreshRow.status = "unused"
  BY DEF IsRow, FreshRow
<1>2. Resting.does # "confirms"
  BY DEF Resting
<1>3. RequestsInv
  BY <1>1, <1>2 DEF DraftsInit, RequestsInv, TablesOK, OpenIsShown, ConfirmingReviewed
<1>4. AnswersInv /\ OneSubscriptionPerSubject
  BY DEF DraftsInit, AnswersInv, TrackedConfirmed, OnePerDraft, AnswersConfirmed, AnswersAgree,
         OneSubscriptionPerSubject
<1> QED
  BY <1>3, <1>4 DEF DraftsInv

\* Nothing is answered, no subscription is made, and confirmed drafts stay as they are.
LEMMA NothingAnswered ==
  ASSUME AnswersInv, OneSubscriptionPerSubject, shown \subseteq shown', tracked' \subseteq tracked,
         UNCHANGED answers,
         \A d \in DraftIds : drafts[d].status = "confirmed" =>
            /\ drafts'[d].status = "confirmed"
            /\ drafts'[d].revision = drafts[d].revision /\ drafts'[d].choice = drafts[d].choice
  PROVE  AnswersInv' /\ OneSubscriptionPerSubject'
<1>1. TrackedConfirmed'
  BY DEF AnswersInv, TrackedConfirmed, Reviewed
<1>2. OnePerDraft' /\ OneSubscriptionPerSubject'
  BY DEF AnswersInv, OnePerDraft, OneSubscriptionPerSubject
<1>3. AnswersConfirmed'
  BY DEF AnswersInv, AnswersConfirmed, Reviewed, IsAnswer
<1>4. AnswersAgree'
  BY DEF AnswersInv, AnswersAgree
<1> QED
  BY <1>1, <1>2, <1>3, <1>4 DEF AnswersInv

\* A confirmation is repeated.
LEMMA AnsweredAgain ==
  ASSUME AnswersInv, OneSubscriptionPerSubject, UNCHANGED <<drafts, tracked, shown>>,
         NEW d \in DraftIds, NEW revision, NEW feed, Confirmed(d, revision, feed)
  PROVE  AnswersInv' /\ OneSubscriptionPerSubject'
<1>1. PICK s \in tracked : s.draft = d /\ Answer(d, revision, feed, s)
  BY DEF Confirmed
<1> DEFINE r == [draft |-> d, revision |-> revision, feed |-> feed, made |-> s]
<1>2. answers' = answers \cup {r}
  BY <1>1 DEF Answer
<1>3. r.draft = d /\ r.revision = revision /\ r.feed = feed /\ r.made = s /\ IsAnswer(r)
  BY DEF IsAnswer
<1> HIDE DEF r
<1>4. /\ drafts[d].status = "confirmed" /\ drafts[d].revision = revision
      /\ drafts[d].choice = feed
  BY DEF Confirmed
<1>5. s.feed = feed /\ Reviewed(d, revision, s.subject, feed)
  BY <1>1, <1>4 DEF AnswersInv, TrackedConfirmed
<1>6. TrackedConfirmed' /\ OnePerDraft' /\ OneSubscriptionPerSubject'
  BY DEF AnswersInv, TrackedConfirmed, OnePerDraft, OneSubscriptionPerSubject, Reviewed
<1>7. AnswersConfirmed'
  BY <1>2, <1>3, <1>4, <1>5 DEF AnswersInv, AnswersConfirmed, Reviewed, IsAnswer
<1>8. AnswersAgree'
  <2>1. \A t \in tracked : t.draft = d => t = s
    BY <1>1 DEF AnswersInv, OnePerDraft
  <2>2. \A t \in answers : t.draft = d => t.made = s
    BY <1>1 DEF AnswersInv, AnswersAgree
  <2> QED
    BY <1>2, <1>3, <2>1, <2>2 DEF AnswersInv, AnswersAgree
<1> QED
  BY <1>6, <1>7, <1>8 DEF AnswersInv

\* The transaction of Confirm: the draft was open, so nothing it made exists and
\* nothing was answered about it.
LEMMA FirstAnswer ==
  ASSUME DraftsInv, NEW a \in Agents, Claim(a)
  PROVE  AnswersInv' /\ OneSubscriptionPerSubject'
<1> DEFINE h == agents[a]
           made == [draft |-> h.draft, subject |-> h.subject, feed |-> h.feed]
           r == [draft |-> h.draft, revision |-> h.revision, feed |-> h.feed, made |-> made]
<1>1. /\ h.draft \in DraftIds /\ Reviewed(h.draft, h.revision, h.subject, h.feed)
  BY DEF Claim, DraftsInv, RequestsInv, ConfirmingReviewed
<1>2. /\ drafts[h.draft].status = "open" /\ drafts[h.draft].revision = h.revision
      /\ \A t \in tracked : t.subject # h.subject
  BY DEF Claim, Claimable, Tracked
<1>3. tracked' = tracked \cup {made} /\ answers' = answers \cup {r} /\ shown' = shown
  BY DEF Claim, Answer
<1>4. /\ drafts'[h.draft].status = "confirmed" /\ drafts'[h.draft].choice = h.feed
      /\ drafts'[h.draft].revision = h.revision
  <2>1. IsRow(drafts[h.draft])
    BY <1>1 DEF DraftsInv, RequestsInv, TablesOK
  <2>2. drafts'[h.draft] = [drafts[h.draft] EXCEPT !.status = "confirmed", !.choice = h.feed,
                                                   !.preview = NoPreview]
    BY <1>1 DEF Claim, DraftsInv, RequestsInv, TablesOK
  <2> QED
    BY <1>2, <2>1, <2>2 DEF IsRow
<1>5. \A d \in DraftIds \ {h.draft} : drafts'[d] = drafts[d]
  BY DEF Claim, DraftsInv, RequestsInv, TablesOK
<1>6. /\ made.draft = h.draft /\ made.subject = h.subject /\ made.feed = h.feed
      /\ r.draft = h.draft /\ r.revision = h.revision /\ r.feed = h.feed /\ r.made = made
      /\ IsAnswer(r)
  BY DEF IsAnswer
<1>7. \A t \in tracked : t.draft \in DraftIds \ {h.draft}
  BY <1>2 DEF DraftsInv, AnswersInv, TrackedConfirmed
<1>8. \A t \in answers : t.draft \in DraftIds \ {h.draft}
  BY <1>2 DEF DraftsInv, AnswersInv, AnswersConfirmed
<1> HIDE DEF h, made, r
<1>9. TrackedConfirmed'
  BY <1>1, <1>3, <1>4, <1>5, <1>6, <1>7 DEF DraftsInv, AnswersInv, TrackedConfirmed, Reviewed
<1>10. OnePerDraft'
  BY <1>3, <1>6, <1>7 DEF DraftsInv, AnswersInv, OnePerDraft
<1>11. OneSubscriptionPerSubject'
  BY <1>2, <1>3, <1>6 DEF DraftsInv, OneSubscriptionPerSubject
<1>12. AnswersConfirmed'
  BY <1>1, <1>3, <1>4, <1>5, <1>6, <1>8
     DEF DraftsInv, AnswersInv, AnswersConfirmed, Reviewed, IsAnswer
<1>13. AnswersAgree'
  BY <1>3, <1>6, <1>7, <1>8 DEF DraftsInv, AnswersInv, AnswersAgree
<1> QED
  BY <1>9, <1>10, <1>11, <1>12, <1>13 DEF AnswersInv

-----------------------------------------------------------------------------
\* The request of one agent moves on, or rests, and what was shown stays shown.
LEMMA OneAgent ==
  ASSUME RequestsInv, NEW a \in Agents, NEW request,
         agents' = [agents EXCEPT ![a] = request], shown \subseteq shown',
         request.does = "confirms" =>
            /\ request.draft \in DraftIds
            /\ Reviewed(request.draft, request.revision, request.subject, request.feed)
  PROVE  ConfirmingReviewed' /\ agents' = [b \in Agents |-> agents'[b]]
<1>1. agents'[a] = request /\ \A b \in Agents \ {a} : agents'[b] = agents[b]
  BY DEF RequestsInv, TablesOK
<1>2. agents' = [b \in Agents |-> agents'[b]]
  BY DEF RequestsInv, TablesOK
<1>3. ConfirmingReviewed'
  BY <1>1 DEF RequestsInv, ConfirmingReviewed, Reviewed
<1> QED
  BY <1>2, <1>3

LEMMA RestingConfirmsNothing == Resting.does = "rests"
BY DEF Resting

\* The steps of a request that save no draft.
LEMMA NothingSaved ==
  ASSUME RequestsInv, NEW a \in Agents, NEW request,
         agents' = [agents EXCEPT ![a] = request], UNCHANGED <<drafts, shown>>,
         request.does = "confirms" =>
            /\ request.draft \in DraftIds
            /\ Reviewed(request.draft, request.revision, request.subject, request.feed)
  PROVE  RequestsInv'
<1>1. ConfirmingReviewed' /\ agents' = [b \in Agents |-> agents'[b]]
  BY OneAgent
<1> QED
  BY <1>1 DEF RequestsInv, TablesOK, OpenIsShown

LEMMA RequestMoves ==
  ASSUME RequestsInv, NEW a \in Agents,
         \/ \E d \in DraftIds \cup {NewDraft} : StartPreview(a, d)
         \/ GiveUp(a) \/ ClaimLost(a)
         \/ \E d \in DraftIds, feed \in Feeds : StartConfirm(a, d, feed)
  PROVE  RequestsInv'
<1>1. CASE \E d \in DraftIds \cup {NewDraft} : StartPreview(a, d)
  <2>1. PICK d \in DraftIds \cup {NewDraft} : StartPreview(a, d)
    BY <1>1
  <2> DEFINE request == [does |-> "previews", draft |-> d,
                         revision |-> IF d \in DraftIds THEN drafts[d].revision ELSE 0]
  <2>2. agents' = [agents EXCEPT ![a] = request] /\ UNCHANGED <<drafts, shown>>
    BY <2>1 DEF StartPreview
  <2>3. request.does = "previews"
    OBVIOUS
  <2> HIDE DEF request
  <2> QED
    BY <2>2, <2>3, NothingSaved
<1>2. CASE GiveUp(a) \/ ClaimLost(a)
  <2>1. agents' = [agents EXCEPT ![a] = Resting] /\ UNCHANGED <<drafts, shown>>
    BY <1>2 DEF GiveUp, ClaimLost
  <2> QED
    BY <2>1, RestingConfirmsNothing, NothingSaved
<1>3. CASE \E d \in DraftIds, feed \in Feeds : StartConfirm(a, d, feed)
  <2>1. PICK d \in DraftIds, feed \in Feeds : StartConfirm(a, d, feed)
    BY <1>3
  <2> DEFINE request == [does |-> "confirms", draft |-> d, revision |-> drafts[d].revision,
                         feed |-> feed, subject |-> drafts[d].preview.subject]
  <2>2. agents' = [agents EXCEPT ![a] = request] /\ UNCHANGED <<drafts, shown>>
    BY <2>1 DEF StartConfirm
  <2>3. PICK s \in shown : /\ s.draft = d /\ s.revision = drafts[d].revision
                           /\ s.preview = drafts[d].preview
    BY <2>1 DEF StartConfirm, RequestsInv, OpenIsShown
  <2>4. Reviewed(d, drafts[d].revision, drafts[d].preview.subject, feed)
    BY <2>1, <2>3 DEF StartConfirm, Reviewed
  <2>5. /\ request.draft = d /\ request.revision = drafts[d].revision
        /\ request.feed = feed /\ request.subject = drafts[d].preview.subject
    OBVIOUS
  <2> HIDE DEF request
  <2> QED
    BY <2>2, <2>4, <2>5, NothingSaved
<1> QED
  BY <1>1, <1>2, <1>3

\* A preview is saved and shown: as a new draft, or as the next revision of one.
LEMMA PreviewSaved ==
  ASSUME RequestsInv, NEW a \in Agents, NEW d \in DraftIds, NEW row, IsRow(row),
         drafts' = [e \in DraftIds |-> IF e = d THEN row ELSE drafts'[e]],
         \A e \in DraftIds \ {d} : IsRow(drafts'[e]) /\ (drafts'[e] # drafts[e] => drafts'[e].status = "deleted"),
         Return(a, d, row)
  PROVE  RequestsInv'
<1> DEFINE seen == [draft |-> d, revision |-> row.revision, preview |-> row.preview]
<1>1. agents' = [agents EXCEPT ![a] = Resting] /\ shown' = shown \cup {seen}
  BY DEF Return
<1>2. seen.draft = d /\ seen.revision = row.revision /\ seen.preview = row.preview
  OBVIOUS
<1> HIDE DEF seen
<1>3. ConfirmingReviewed' /\ agents' = [b \in Agents |-> agents'[b]]
  BY <1>1, RestingConfirmsNothing, OneAgent
<1>4. drafts'[d] = row
  OBVIOUS
<1>5. drafts' = [e \in DraftIds |-> drafts'[e]]
  OBVIOUS
<1>6. OpenIsShown'
  BY <1>1, <1>2, <1>4 DEF RequestsInv, OpenIsShown
<1> QED
  BY <1>3, <1>4, <1>5, <1>6 DEF RequestsInv, TablesOK

LEMMA ChangedField ==
  ASSUME NEW r, IsRow(r), NEW x
  PROVE  /\ IsRow([r EXCEPT !.status = x]) /\ IsRow([r EXCEPT !.revision = x])
         /\ IsRow([r EXCEPT !.preview = x]) /\ IsRow([r EXCEPT !.expired = x])
         /\ IsRow([r EXCEPT !.choice = x])
<1>1. \A s, v, p, e, c : IsRow([status |-> s, revision |-> v, preview |-> p, expired |-> e, choice |-> c])
  BY DEF IsRow
<1>2. [r EXCEPT !.status = x] =
        [status |-> x, revision |-> r.revision, preview |-> r.preview, expired |-> r.expired,
         choice |-> r.choice]
  BY DEF IsRow
<1>3. [r EXCEPT !.revision = x] =
        [status |-> r.status, revision |-> x, preview |-> r.preview, expired |-> r.expired,
         choice |-> r.choice]
  BY DEF IsRow
<1>4. [r EXCEPT !.preview = x] =
        [status |-> r.status, revision |-> r.revision, preview |-> x, expired |-> r.expired,
         choice |-> r.choice]
  BY DEF IsRow
<1>5. [r EXCEPT !.expired = x] =
        [status |-> r.status, revision |-> r.revision, preview |-> r.preview, expired |-> x,
         choice |-> r.choice]
  BY DEF IsRow
<1>6. [r EXCEPT !.choice = x] =
        [status |-> r.status, revision |-> r.revision, preview |-> r.preview,
         expired |-> r.expired, choice |-> x]
  BY DEF IsRow
<1> QED
  BY <1>1, <1>2, <1>3, <1>4, <1>5, <1>6

LEMMA RowFields == ASSUME NEW r, IsRow(r), NEW x PROVE [r EXCEPT !.status = x].status = x
BY DEF IsRow

LEMMA ChangedRows ==
  ASSUME NEW r, IsRow(r), NEW status, NEW revision, NEW preview, NEW expired, NEW choice
  PROVE  /\ IsRow([r EXCEPT !.status = status]) /\ [r EXCEPT !.status = status].status = status
         /\ IsRow([r EXCEPT !.revision = revision, !.preview = preview])
         /\ IsRow([r EXCEPT !.status = status, !.revision = revision, !.preview = preview])
         /\ IsRow([r EXCEPT !.status = status, !.choice = choice, !.preview = preview])
         /\ IsRow([r EXCEPT !.expired = expired])
<1> DEFINE q == [r EXCEPT !.status = status]
           w == [r EXCEPT !.revision = revision]
           v == [q EXCEPT !.revision = revision]
           u == [q EXCEPT !.choice = choice]
<1>1. IsRow(q) /\ IsRow(w) /\ q.status = status
  BY ChangedField, RowFields
<1>2. IsRow(v) /\ IsRow(u)
  <2> HIDE DEF q
  <2> QED
    BY <1>1, ChangedField
<1>3. IsRow([w EXCEPT !.preview = preview]) /\ IsRow([v EXCEPT !.preview = preview])
      /\ IsRow([u EXCEPT !.preview = preview])
  <2> HIDE DEF q, w, v, u
  <2> QED
    BY <1>1, <1>2, ChangedField
<1> QED
  BY <1>1, <1>3, ChangedField

LEMMA NewSaved ==
  ASSUME DraftsInv, NEW a \in Agents, NEW d \in DraftIds, NEW preview \in Previews,
         SaveNew(a, d, preview)
  PROVE  RequestsInv' /\ AnswersInv' /\ OneSubscriptionPerSubject'
<1> DEFINE row == [FreshRow EXCEPT !.status = "open", !.revision = 1, !.preview = preview]
           gone == [FreshRow EXCEPT !.status = "deleted"]
<1>1. IsRow(row) /\ IsRow(gone) /\ gone.status = "deleted"
  <2>1. IsRow(FreshRow)
    BY DEF IsRow, FreshRow
  <2> QED
    BY <2>1, ChangedRows
<1>2. /\ drafts' = [e \in DraftIds |-> IF e = d THEN row
                                      ELSE IF e \in Outdated THEN gone ELSE drafts[e]]
      /\ Return(a, d, row) /\ drafts[d].status = "unused"
  BY DEF SaveNew
<1> HIDE DEF row, gone
<1>3. \A e \in DraftIds \ {d} :
         drafts'[e] = drafts[e] \/ (drafts'[e] = gone /\ drafts[e].status = "open")
  BY <1>2 DEF Outdated, Outstanding
<1>4. RequestsInv'
  <2>1. drafts' = [e \in DraftIds |-> IF e = d THEN row ELSE drafts'[e]]
    BY <1>2
  <2>2. \A e \in DraftIds \ {d} : IsRow(drafts'[e]) /\ (drafts'[e] # drafts[e] => drafts'[e].status = "deleted")
    BY <1>1, <1>3 DEF DraftsInv, RequestsInv, TablesOK
  <2> QED
    BY <1>1, <1>2, <2>1, <2>2, PreviewSaved DEF DraftsInv
<1>5. \A e \in DraftIds : drafts[e].status = "confirmed" => drafts'[e] = drafts[e]
  BY <1>2, <1>3
<1>6. shown \subseteq shown' /\ UNCHANGED <<tracked, answers>>
  BY <1>2 DEF Return
<1> QED
  BY <1>4, <1>5, <1>6, NothingAnswered DEF DraftsInv

LEMMA RevisionSaved ==
  ASSUME DraftsInv, NEW a \in Agents, NEW preview \in Previews, SaveRevision(a, preview)
  PROVE  RequestsInv' /\ AnswersInv' /\ OneSubscriptionPerSubject'
<1> DEFINE d == agents[a].draft
           row == [drafts[d] EXCEPT !.revision = agents[a].revision + 1, !.preview = preview]
<1>1. d \in DraftIds /\ drafts[d].status = "open"
  BY DEF SaveRevision, Claimable
<1>2. drafts' = [drafts EXCEPT ![d] = row] /\ Return(a, d, row)
  BY DEF SaveRevision
<1>3. IsRow(row)
  <2>1. IsRow(drafts[d])
    BY <1>1 DEF DraftsInv, RequestsInv, TablesOK
  <2> QED
    BY <2>1, ChangedRows
<1> HIDE DEF d, row
<1>4. /\ drafts' = [e \in DraftIds |-> IF e = d THEN row ELSE drafts'[e]]
      /\ \A e \in DraftIds \ {d} : drafts'[e] = drafts[e]
  BY <1>2 DEF DraftsInv, RequestsInv, TablesOK
<1>5. RequestsInv'
  <2>1. \A e \in DraftIds \ {d} : IsRow(drafts'[e]) /\ (drafts'[e] # drafts[e] => drafts'[e].status = "deleted")
    BY <1>4 DEF DraftsInv, RequestsInv, TablesOK
  <2> QED
    BY <1>1, <1>2, <1>3, <1>4, <2>1, PreviewSaved DEF DraftsInv
<1>6. \A e \in DraftIds : drafts[e].status = "confirmed" => drafts'[e] = drafts[e]
  BY <1>1, <1>4
<1>7. shown \subseteq shown' /\ UNCHANGED <<tracked, answers>>
  BY <1>2 DEF Return
<1> QED
  BY <1>5, <1>6, <1>7, NothingAnswered DEF DraftsInv

LEMMA ClaimKeepsRequests == ASSUME DraftsInv, NEW a \in Agents, Claim(a) PROVE RequestsInv'
<1> DEFINE d == agents[a].draft
           row == [drafts[d] EXCEPT !.status = "confirmed", !.choice = agents[a].feed,
                                    !.preview = NoPreview]
<1>1. d \in DraftIds
  BY DEF Claim, DraftsInv, RequestsInv, ConfirmingReviewed
<1>2. drafts' = [drafts EXCEPT ![d] = row]
  BY <1>1 DEF Claim, DraftsInv, RequestsInv, TablesOK
<1>3. IsRow(row) /\ row.status = "confirmed"
  <2>1. IsRow(drafts[d])
    BY <1>1 DEF DraftsInv, RequestsInv, TablesOK
  <2>2. DOMAIN drafts[d] = {"status", "revision", "preview", "expired", "choice"}
    BY <2>1 DEF IsRow
  <2>3. row.status = "confirmed"
    BY <2>2
  <2>4. IsRow(row)
    BY <2>1, ChangedRows
  <2> HIDE DEF row
  <2> QED
    BY <2>3, <2>4
<1> HIDE DEF d, row
<1>4. drafts'[d] = row /\ \A e \in DraftIds \ {d} : drafts'[e] = drafts[e]
  BY <1>1, <1>2 DEF DraftsInv, RequestsInv, TablesOK
<1>5. agents' = [agents EXCEPT ![a] = Resting] /\ UNCHANGED shown
  BY DEF Claim
<1>6. ConfirmingReviewed' /\ agents' = [b \in Agents |-> agents'[b]]
  BY <1>5, RestingConfirmsNothing, OneAgent DEF DraftsInv
<1>7. drafts' = [e \in DraftIds |-> drafts'[e]]
  BY <1>2 DEF DraftsInv, RequestsInv, TablesOK
<1>8. OpenIsShown'
  BY <1>3, <1>4, <1>5 DEF DraftsInv, RequestsInv, OpenIsShown
<1> QED
  BY <1>3, <1>4, <1>6, <1>7, <1>8 DEF DraftsInv, RequestsInv, TablesOK

LEMMA ExpireKeeps ==
  ASSUME DraftsInv, NEW d \in DraftIds, Expire(d)
  PROVE  RequestsInv' /\ AnswersInv' /\ OneSubscriptionPerSubject'
<1> DEFINE row == [drafts[d] EXCEPT !.expired = TRUE]
<1>1. drafts' = [drafts EXCEPT ![d] = row] /\ UNCHANGED <<tracked, agents, shown, answers>>
  BY DEF Expire, DraftsInv, RequestsInv, TablesOK
<1>2. IsRow(row)
  <2>1. IsRow(drafts[d])
    BY DEF DraftsInv, RequestsInv, TablesOK
  <2> QED
    BY <2>1, ChangedRows
<1>7. /\ row.status = drafts[d].status /\ row.revision = drafts[d].revision
      /\ row.preview = drafts[d].preview /\ row.choice = drafts[d].choice
  OBVIOUS
<1> HIDE DEF row
<1>3. drafts'[d] = row /\ \A e \in DraftIds \ {d} : drafts'[e] = drafts[e]
  BY <1>1 DEF DraftsInv, RequestsInv, TablesOK
<1>4. drafts' = [e \in DraftIds |-> drafts'[e]]
  BY <1>1 DEF DraftsInv, RequestsInv, TablesOK
<1>5. TablesOK' /\ OpenIsShown' /\ ConfirmingReviewed'
  BY <1>1, <1>2, <1>3, <1>4, <1>7
     DEF DraftsInv, RequestsInv, TablesOK, OpenIsShown, ConfirmingReviewed, Reviewed
<1> QED
  BY <1>1, <1>3, <1>5, <1>7, NothingAnswered DEF DraftsInv, RequestsInv

LEMMA DraftsStep == DraftsInv /\ [DraftsNext]_draftVars => DraftsInv'
<1> SUFFICES ASSUME DraftsInv, [DraftsNext]_draftVars PROVE DraftsInv'
  OBVIOUS
<1>1. ASSUME NEW a \in Agents,
             \/ \E d \in DraftIds \cup {NewDraft} : StartPreview(a, d)
             \/ GiveUp(a)
             \/ \E d \in DraftIds, feed \in Feeds : StartConfirm(a, d, feed)
      PROVE  DraftsInv'
  <2>1. UNCHANGED <<drafts, tracked, shown, answers>>
    BY <1>1 DEF StartPreview, GiveUp, StartConfirm
  <2>2. RequestsInv'
    BY <1>1, RequestMoves DEF DraftsInv
  <2>3. AnswersInv' /\ OneSubscriptionPerSubject'
    BY <2>1, NothingAnswered DEF DraftsInv
  <2> QED
    BY <2>2, <2>3 DEF DraftsInv
<1>2. ASSUME NEW a \in Agents, NEW d \in DraftIds, NEW preview \in Previews,
             SaveNew(a, d, preview)
      PROVE  DraftsInv'
  BY <1>2, NewSaved DEF DraftsInv
<1>3. ASSUME NEW a \in Agents, NEW preview \in Previews, SaveRevision(a, preview)
      PROVE  DraftsInv'
  BY <1>3, RevisionSaved DEF DraftsInv
<1>4. ASSUME NEW a \in Agents, NEW d \in DraftIds, NEW feed \in Feeds,
             NEW revision \in 1 .. MaxRevision, ConfirmAgain(a, d, revision, feed)
      PROVE  DraftsInv'
  <2>1. UNCHANGED <<drafts, tracked, agents, shown>> /\ Confirmed(d, revision, feed)
    BY <1>4 DEF ConfirmAgain
  <2>2. RequestsInv'
    BY <2>1 DEF DraftsInv, RequestsInv, TablesOK, OpenIsShown, ConfirmingReviewed, Reviewed
  <2> QED
    BY <2>1, <2>2, AnsweredAgain DEF DraftsInv
<1>5. ASSUME NEW a \in Agents, Claim(a) PROVE DraftsInv'
  BY <1>5, ClaimKeepsRequests, FirstAnswer DEF DraftsInv
<1>6. ASSUME NEW a \in Agents, ClaimLost(a) PROVE DraftsInv'
  <2>1. /\ UNCHANGED <<drafts, tracked, shown>> /\ agents[a].draft \in DraftIds
        /\ Confirmed(agents[a].draft, agents[a].revision, agents[a].feed)
    BY <1>6 DEF ClaimLost, DraftsInv, RequestsInv, ConfirmingReviewed
  <2> QED
    BY <1>6, <2>1, RequestMoves, AnsweredAgain DEF DraftsInv
<1>7. ASSUME NEW d \in DraftIds, Expire(d) PROVE DraftsInv'
  BY <1>7, ExpireKeeps DEF DraftsInv
<1>8. ASSUME NEW s \in tracked, Untrack(s) PROVE DraftsInv'
  <2>1. tracked' \subseteq tracked /\ UNCHANGED <<drafts, agents, shown, answers>>
    BY <1>8 DEF Untrack
  <2>2. RequestsInv'
    BY <2>1 DEF DraftsInv, RequestsInv, TablesOK, OpenIsShown, ConfirmingReviewed, Reviewed
  <2> QED
    BY <2>1, <2>2, NothingAnswered DEF DraftsInv
<1>9. CASE UNCHANGED draftVars
  <2>1. UNCHANGED <<drafts, tracked, agents, shown, answers>>
    BY <1>9 DEF draftVars
  <2>2. RequestsInv'
    BY <2>1 DEF DraftsInv, RequestsInv, TablesOK, OpenIsShown, ConfirmingReviewed, Reviewed
  <2> QED
    BY <2>1, <2>2, NothingAnswered DEF DraftsInv
<1> QED
  BY <1>1, <1>2, <1>3, <1>4, <1>5, <1>6, <1>7, <1>8, <1>9 DEF DraftsNext

-----------------------------------------------------------------------------
THEOREM DraftsInvariant == DraftsSpec => []DraftsInv
BY DraftsStart, DraftsStep, PTL DEF DraftsSpec

\* A confirmation is answered with what the agent reviewed under the revision it
\* named, and all answers about a draft agree (Prepare, save and Confirm).
THEOREM ConfirmationsAreReviewed == DraftsSpec => []ConfirmedAsReviewed
<1>1. DraftsInv => ConfirmedAsReviewed
  <2> SUFFICES ASSUME DraftsInv PROVE ConfirmedAsReviewed
    OBVIOUS
  <2>1. \A r, t \in answers : r.draft = t.draft => r = t
    BY DEF DraftsInv, AnswersInv, AnswersConfirmed, AnswersAgree, IsAnswer
  <2> QED
    BY <2>1 DEF ConfirmedAsReviewed, DraftsInv, AnswersInv, AnswersConfirmed, Reviewed
<1> QED
  BY DraftsInvariant, <1>1, PTL

\* Drafts of the same subject confirmed at once make one subscription (Confirm).
THEOREM SubjectsAreTrackedOnce == DraftsSpec => []OneSubscriptionPerSubject
<1>1. DraftsInv => OneSubscriptionPerSubject
  BY DEF DraftsInv
<1> QED
  BY DraftsInvariant, <1>1, PTL
====
