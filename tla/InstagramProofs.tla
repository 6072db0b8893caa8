--------------------------- MODULE InstagramProofs ---------------------------
(***************************************************************************)
(* Theorems about Instagram: who publishes, what is posted, and which      *)
(* media are kept.                                                         *)
(***************************************************************************)
EXTENDS Instagram, ApprovalProofs, FiniteSetTheorems

Claimed == {"stage", "saveStaging", "container", "saveContainer", "poll", "check", "publish",
            "complete", "fail"}
Polling == {"saveContainer", "poll", "check", "publish"}
Ending  == {"cleanup", "clear"}
Labels  == Claimed \cup Ending \cup {"idle", "approved", "mark", "resume", "claim"}

DraftFields == {"content", "state", "attempts", "available", "authorized", "staging", "until",
                "container", "media"}
CopyFields  == {"state", "content", "staging", "until", "container", "attempts", "polls", "seen"}

DraftOK ==
    /\ DOMAIN draft = DraftFields
    /\ draft.state \in {"prepared", "publishing", "failed", "published"}
    /\ draft.content \in Contents
    /\ draft.staging \in 0 .. mediaCount /\ draft.until \in Nat
    /\ draft.container \in {0, Key}

CopyOK(w) ==
    /\ DOMAIN copy[w] = CopyFields
    /\ copy[w].state \in {"publishing", "published"}
    /\ copy[w].staging \in 0 .. mediaCount /\ copy[w].until \in Nat
    /\ copy[w].seen \in Nat
    /\ copy[w].container \in {0, Key}

Types ==
    /\ now \in Nat
    /\ pc \in [Worker -> Labels]
    /\ copy = [w \in Worker |-> copy[w]]
    /\ mediaCount \in Nat /\ staged \subseteq 1 .. mediaCount
    /\ draft = NoDraft \/ DraftOK
    /\ \A w \in Worker : pc[w] \in Claimed \cup Ending => CopyOK(w)
    /\ DOMAIN janitor = {"pc", "media"} /\ janitor.pc \in {"idle", "cleanup", "clear"}
    /\ janitor.media \in 0 .. mediaCount
    /\ DOMAIN containers \subseteq {Key} /\ DOMAIN posts \subseteq {Key}

(***************************************************************************)
(* Who has the draft.  A worker whose copy says "published", or who has    *)
(* completed the draft, sees it published for good; unless Recover         *)
(* interfered, one that publishes it has it in the state "publishing", and *)
(* is alone.  What a worker has accepted stays bound to the draft until it *)
(* is marked.                                                              *)
(***************************************************************************)
SeesItPublished(w) ==
    \/ pc[w] \in Ending
    \/ pc[w] \in Claimed /\ copy[w].state = "published"

PublishInv ==
    /\ \A w \in Worker : pc[w] = "mark" => draft # NoDraft /\ copy[w].binding = draft.content
    /\ \A w \in Worker : pc[w] \in Claimed \cup Ending =>
          draft # NoDraft /\ copy[w].content = draft.content
    /\ \A w \in Worker : SeesItPublished(w) => draft.state = "published"
    /\ \A w \in Worker : pc[w] = "complete" => Key \in DOMAIN posts
    /\ draft.state = "published" => draft.media = Key /\ Key \in DOMAIN posts
    /\ janitor.pc # "idle" => draft # NoDraft
    /\ ~recovered => \A w \in Worker : Publishing(w) =>
                        /\ draft.state = "publishing"
                        /\ \A v \in Worker : Publishing(v) => v = w

(***************************************************************************)
(* What is posted.  The approval that was used for a content is behind the *)
(* authorization of the draft, everything a worker does after a claim, the *)
(* container and the post.                                                 *)
(***************************************************************************)
Grants(rows, used, c, at) ==
    \E t \in DOMAIN used : /\ rows[t].state = "approved" /\ rows[t].bind = Binding(c)
                           /\ used[t] <= at

Granted(c, at) == Grants(requests, uses, c, at)

Due == Granted(draft.content, now) /\ now >= draft.content.publishAt

GrantInv ==
    /\ \A w \in Worker : pc[w] \in {"approved", "mark"} => Granted(copy[w].binding, now)
    /\ (draft # NoDraft /\ draft.authorized # Null) => Granted(draft.content, now)
    /\ draft.state \in {"publishing", "published"} => Due
    /\ \A w \in Worker : pc[w] \in Claimed => Due
    /\ \A w \in Worker : (pc[w] \in Claimed /\ copy[w].container # 0) => Key \in DOMAIN containers
    /\ \A w \in Worker : pc[w] \in Polling => copy[w].container = Key
    /\ (draft # NoDraft /\ draft.container # 0) => Key \in DOMAIN containers
    /\ \A k \in DOMAIN containers :
          /\ draft # NoDraft /\ containers[k].content = draft.content
          /\ DOMAIN containers[k] = {"content", "status"}
    /\ \A k \in DOMAIN posts :
          /\ draft # NoDraft /\ posts[k].content = draft.content
          /\ posts[k].at >= draft.content.publishAt
          /\ Granted(draft.content, posts[k].at)

(***************************************************************************)
(* Which media are kept.  While Recover has not interfered and the draft   *)
(* is not published, a medium with a second to live, in the draft or in a  *)
(* copy, one that had it when it was taken, and one that was just staged,  *)
(* is there and not what CleanupExpired is about to remove.                *)
(***************************************************************************)
Kept(m, held, j) == m \in held /\ ~(j.pc = "cleanup" /\ j.media = m)
Safe(m) == Kept(m, staged, janitor)

NeedsItsMedium(w) ==
    /\ pc[w] \in {"stage", "saveStaging", "container"} /\ copy[w].state = "publishing"
    /\ pc[w] = "stage" => copy[w].staging # 0 /\ now + TicksPerSecond <= copy[w].until
    /\ pc[w] = "container" => copy[w].seen + TicksPerSecond <= copy[w].until

DraftNeedsItsMedium ==
    /\ draft # NoDraft /\ draft.state # "published"
    /\ draft.staging # 0 /\ now + TicksPerSecond <= draft.until

MediaInv ==
    ~recovered => /\ DraftNeedsItsMedium => Safe(draft.staging)
                  /\ \A w \in Worker : NeedsItsMedium(w) => Safe(copy[w].staging)

----------------------------------------------------------------------------
(***************************************************************************)
(* Types.                                                                  *)
(***************************************************************************)
\* The order of the text is never off by a second or more.
LEMMA SqlLeqWithinASecond ==
    ASSUME NEW a \in Int, NEW b \in Int, SqlLeq(a, b)
    PROVE  a < b + TicksPerSecond
<1>1. CASE TicksPerSecond = 1
  BY <1>1 DEF SqlLeq, TextKey
<1>2. CASE TicksPerSecond = 2
  BY <1>2 DEF SqlLeq, TextKey
<1>3. CASE TicksPerSecond = 5
  BY <1>3 DEF SqlLeq, TextKey
<1>4. CASE TicksPerSecond = 10
  BY <1>4 DEF SqlLeq, TextKey
<1>. QED
  BY <1>1, <1>2, <1>3, <1>4, TicksAssumption

\* A worker goes on at a label: nothing else changes in pc and copy.
LEMMA Moved ==
    ASSUME Types, NEW w \in Worker, NEW label \in Labels, NEW c, With(w, label, c)
    PROVE  /\ pc' \in [Worker -> Labels] /\ copy' = [v \in Worker |-> copy'[v]]
           /\ pc'[w] = label /\ (label # "idle" => copy'[w] = c)
           /\ \A v \in Worker : v # w => pc'[v] = pc[v] /\ copy'[v] = copy[v]
           /\ UNCHANGED <<now, requests, trail, janitor, recovered>>
<1>1. /\ pc' = [pc EXCEPT ![w] = label]
      /\ copy' = [copy EXCEPT ![w] = IF label = "idle" THEN NoCopy ELSE c]
      /\ UNCHANGED <<now, requests, trail, janitor, recovered>>
  BY DEF With
<1>2. PICK d : d = IF label = "idle" THEN NoCopy ELSE c
  OBVIOUS
<1>3. copy' = [copy EXCEPT ![w] = d] /\ copy = [v \in Worker |-> copy[v]] /\ pc \in [Worker -> Labels]
  BY <1>1, <1>2 DEF Types
<1>4. /\ copy' = [v \in Worker |-> copy'[v]] /\ copy'[w] = d
      /\ \A v \in Worker : v # w => copy'[v] = copy[v]
  BY <1>3
<1>5. /\ pc' \in [Worker -> Labels] /\ pc'[w] = label
      /\ \A v \in Worker : v # w => pc'[v] = pc[v]
  BY <1>1, <1>3
<1>. QED
  BY <1>1, <1>2, <1>4, <1>5

\* The same with the copy as it is.
LEMMA Gone ==
    ASSUME Types, NEW w \in Worker, NEW label \in Labels, Goto(w, label)
    PROVE  /\ pc' \in [Worker -> Labels] /\ copy' = [v \in Worker |-> copy'[v]]
           /\ pc'[w] = label /\ (label # "idle" => copy'[w] = copy[w])
           /\ \A v \in Worker : v # w => pc'[v] = pc[v] /\ copy'[v] = copy[v]
           /\ UNCHANGED <<now, requests, trail, janitor, recovered>>
<1>1. PICK c : c = copy[w]
  OBVIOUS
<1>2. With(w, label, c)
  BY <1>1 DEF Goto
<1>. QED
  BY <1>1, <1>2, Moved

\* What the media of a draft or a copy are stays in range.
LEMMA DraftStays ==
    ASSUME Types, mediaCount' \in Nat, mediaCount' >= mediaCount, draft' = draft
    PROVE  draft' = NoDraft \/ DraftOK'
BY DEF Types, DraftOK

\* The same for a copy.
LEMMA CopyStays ==
    ASSUME Types, mediaCount' \in Nat, mediaCount' >= mediaCount,
           NEW v \in Worker, CopyOK(v), copy'[v] = copy[v]
    PROVE  CopyOK(v)'
BY DEF Types, CopyOK

\* Worker w moves; what it leaves behind has its types.
LEMMA TypesMove ==
    ASSUME Types, NEW w \in Worker,
           pc' \in [Worker -> Labels], copy' = [v \in Worker |-> copy'[v]],
           \A v \in Worker : v # w => pc'[v] = pc[v] /\ copy'[v] = copy[v],
           UNCHANGED <<now, janitor>>,
           mediaCount' \in Nat, mediaCount' >= mediaCount, staged' \subseteq 1 .. mediaCount',
           draft' = NoDraft \/ DraftOK',
           DOMAIN containers' \subseteq {Key}, DOMAIN posts' \subseteq {Key},
           pc'[w] \in Claimed \cup Ending => CopyOK(w)'
    PROVE  Types'
<1>1. \A v \in Worker : pc'[v] \in Claimed \cup Ending => CopyOK(v)'
  BY CopyStays DEF Types
<1>2. janitor'.media \in 0 .. mediaCount'
  BY DEF Types
<1>. QED
  BY <1>1, <1>2 DEF Types

\* Most of what a worker does touches neither the stager nor the draft.
LEMMA TypesGone ==
    ASSUME Types, NEW w \in Worker, NEW label \in Labels, Goto(w, label),
           pc[w] \in Claimed \cup Ending \/ label \notin Claimed \cup Ending,
           UNCHANGED stager, draft' = NoDraft \/ DraftOK',
           DOMAIN containers' \subseteq {Key}, DOMAIN posts' \subseteq {Key}
    PROVE  Types'
<1>1. /\ pc' \in [Worker -> Labels] /\ copy' = [v \in Worker |-> copy'[v]]
      /\ pc'[w] = label /\ (label # "idle" => copy'[w] = copy[w])
      /\ \A v \in Worker : v # w => pc'[v] = pc[v] /\ copy'[v] = copy[v]
      /\ UNCHANGED <<now, requests, trail, janitor, recovered>>
  BY Gone
<1>2. staged' = staged /\ mediaCount' = mediaCount /\ mediaCount \in Nat
      /\ staged' \subseteq 1 .. mediaCount' /\ mediaCount' >= mediaCount
  BY DEF stager, Types
<1>3. ASSUME label \in Claimed \cup Ending PROVE CopyOK(w)'
  <2>1. label # "idle"
    BY <1>3 DEF Claimed, Ending
  <2>2. CopyOK(w)
    BY <1>3 DEF Types
  <2>. QED
    BY <1>1, <1>2, <2>1, <2>2, CopyStays
<1>. QED
  BY <1>1, <1>2, <1>3, TypesMove

----------------------------------------------------------------------------
(***************************************************************************)
(* The steps of a worker by their effect.                                  *)
(***************************************************************************)
Frame(w) ==
    /\ \A v \in Worker : v # w => pc'[v] = pc[v] /\ copy'[v] = copy[v]
    /\ UNCHANGED <<now, requests, trail, janitor, recovered>>

\* Only these columns of the draft are written.
Updates(columns) ==
    /\ draft # NoDraft /\ draft' # NoDraft
    /\ \A f \in DraftFields \ columns : draft'[f] = draft[f]

\* The copy as it was, up to these fields.
CopyKept(w, fields) == \A f \in CopyFields \ fields : copy'[w][f] = copy[w][f]

Rests(w) ==
    /\ Frame(w) /\ pc'[w] \in {"idle", "resume", "claim"}
    /\ UNCHANGED <<uses, draft, stager, provider>>

Accepted(w) ==
    /\ Frame(w) /\ pc[w] = "approved" /\ pc'[w] = "mark" /\ copy'[w] = copy[w]
    /\ draft # NoDraft /\ copy[w].binding = draft.content
    /\ UNCHANGED <<uses, draft, stager, provider>>

Authorized(w) ==
    /\ Frame(w) /\ pc[w] = "mark" /\ pc'[w] \in {"idle", "resume"}
    /\ Updates({"authorized"})
    /\ UNCHANGED <<uses, stager, provider>>

Takes(w) ==
    /\ Frame(w) /\ pc'[w] = "stage" /\ copy'[w] = Copied(draft')
    /\ draft.state \in {"prepared", "failed"} /\ draft'.state = "publishing"
    /\ draft.authorized # Null /\ now >= draft.content.publishAt
    /\ Updates({"state", "attempts"})
    /\ UNCHANGED <<uses, stager, provider>>

FindsPublished(w) ==
    /\ Frame(w) /\ pc'[w] = "stage" /\ copy'[w] = Copied(draft) /\ draft.state = "published"
    /\ UNCHANGED <<uses, draft, stager, provider>>

GoesOn(w) ==
    /\ Frame(w) /\ pc[w] \in Claimed /\ pc'[w] \in Claimed \ {"stage", "saveStaging", "complete"}
    /\ CopyKept(w, {"polls"})
    /\ pc'[w] = "container" => pc[w] = "saveStaging"
    /\ pc'[w] \in Polling => pc[w] \in Polling \/ copy[w].container # 0
    /\ UNCHANGED <<uses, draft, stager, provider>>

Reuses(w) ==
    /\ Frame(w) /\ pc[w] = "stage" /\ pc'[w] = "container"
    /\ CopyKept(w, {"seen"}) /\ copy'[w].seen = now /\ copy[w].staging # 0
    /\ UNCHANGED <<uses, draft, stager, provider>>

Stages(w) ==
    /\ Frame(w) /\ pc[w] = "stage" /\ pc'[w] \in {"saveStaging", "fail"}
    /\ mediaCount' = mediaCount + 1 /\ staged' = staged \cup {mediaCount + 1}
    /\ CopyKept(w, {"staging", "until", "seen"})
    /\ pc'[w] = "saveStaging" =>
          copy'[w].staging = mediaCount + 1 /\ copy'[w].seen + TicksPerSecond <= copy'[w].until
    /\ UNCHANGED <<uses, draft, provider>>

SavesMedium(w) ==
    /\ Frame(w) /\ pc[w] = "saveStaging" /\ pc'[w] = "container" /\ copy'[w] = copy[w]
    /\ draft.state = "publishing" /\ Updates({"staging", "until"})
    /\ draft'.staging = copy[w].staging
    /\ UNCHANGED <<uses, stager, provider>>

Contains(w) ==
    /\ Frame(w) /\ pc[w] = "container" /\ pc'[w] \in {"saveContainer", "fail"}
    /\ CopyKept(w, {"container"})
    /\ pc'[w] = "saveContainer" => copy'[w].container = Key
    /\ pc'[w] = "fail" => copy'[w].container = copy[w].container
    /\ Key \in DOMAIN containers' /\ DOMAIN containers \subseteq DOMAIN containers'
    /\ \A k \in DOMAIN containers' :
          \/ k \in DOMAIN containers /\ containers'[k] = containers[k]
          \/ DOMAIN containers'[k] = {"content", "status"} /\ containers'[k].content = copy[w].content
    /\ UNCHANGED <<uses, draft, stager, posts>>

SavesContainer(w) ==
    /\ Frame(w) /\ pc[w] = "saveContainer" /\ pc'[w] = "poll" /\ copy'[w] = copy[w]
    /\ Updates({"container"}) /\ draft'.container = copy[w].container
    /\ UNCHANGED <<uses, stager, provider>>

Posts(w) ==
    /\ Frame(w) /\ pc[w] = "publish" /\ pc'[w] \in {"complete", "fail"} /\ copy'[w] = copy[w]
    /\ Key \in DOMAIN posts' /\ DOMAIN posts \subseteq DOMAIN posts'
    /\ \A k \in DOMAIN posts' :
          \/ k \in DOMAIN posts /\ posts'[k] = posts[k]
          \/ posts'[k] = [content |-> containers[copy[w].container].content, at |-> now]
    /\ UNCHANGED <<uses, draft, stager, containers>>

Completes(w) ==
    /\ Frame(w) /\ pc[w] = "complete" /\ pc'[w] = "cleanup" /\ copy'[w] = copy[w]
    /\ draft.state = "publishing" /\ draft'.state = "published" /\ draft'.media = Key
    /\ Updates({"state", "media"})
    /\ UNCHANGED <<uses, stager, provider>>

CleansUp(w) ==
    /\ Frame(w) /\ pc[w] = "cleanup" /\ pc'[w] \in {"clear", "idle"}
    /\ pc'[w] = "clear" => copy'[w] = copy[w]
    /\ staged' \subseteq staged
    /\ UNCHANGED <<uses, draft, mediaCount, provider>>

Clears(w) ==
    /\ Frame(w) /\ pc[w] = "clear" /\ pc'[w] = "idle"
    /\ Updates({"staging", "until"}) /\ draft'.staging = 0
    /\ UNCHANGED <<uses, stager, provider>>

GivesUp(w) ==
    /\ Frame(w) /\ pc[w] = "fail" /\ pc'[w] = "idle"
    /\ draft.state = "publishing" /\ draft'.state = "failed" /\ Updates({"state", "available"})
    /\ UNCHANGED <<uses, stager, provider>>

Effect(w) ==
    \/ Rests(w) \/ Accepted(w) \/ Authorized(w) \/ Takes(w) \/ FindsPublished(w) \/ GoesOn(w)
    \/ Reuses(w) \/ Stages(w) \/ SavesMedium(w) \/ Contains(w) \/ SavesContainer(w) \/ Posts(w) \/ Completes(w)
    \/ CleansUp(w) \/ Clears(w) \/ GivesUp(w)

\* A step that only moves a worker on.
LEMMA RestsOrGoesOn ==
    ASSUME Types, NEW w \in Worker, NEW label \in Labels, Goto(w, label),
           UNCHANGED <<uses, draft, stager, provider>>,
           \/ label \in {"idle", "resume", "claim"}
           \/ /\ pc[w] \in Claimed /\ label \in Claimed \ {"stage", "saveStaging", "complete"}
              /\ label = "container" => pc[w] = "saveStaging"
              /\ label \in Polling => pc[w] \in Polling \/ copy[w].container # 0
    PROVE  Types' /\ Effect(w)
<1>1. /\ pc'[w] = label /\ (label # "idle" => copy'[w] = copy[w]) /\ Frame(w)
  BY Gone DEF Frame
<1>2. draft' = NoDraft \/ DraftOK'
  BY DEF Types, DraftOK, stager
<1>3. DOMAIN containers' \subseteq {Key} /\ DOMAIN posts' \subseteq {Key}
  BY DEF Types, provider
<1>4. Types'
  BY <1>2, <1>3, TypesGone DEF Claimed, Ending
<1>5. Rests(w) \/ GoesOn(w)
  BY <1>1 DEF Rests, GoesOn, CopyKept, Claimed
<1>. QED
  BY <1>4, <1>5 DEF Effect

\* A step that updates the draft, and leaves the stager and the provider alone.
LEMMA UpdatesTypes ==
    ASSUME Types, NEW w \in Worker, NEW label \in Labels, Goto(w, label),
           pc[w] \in Claimed \cup Ending \/ label \notin Claimed \cup Ending,
           UNCHANGED <<stager, provider>>, DraftOK'
    PROVE  Types'
<1>1. DOMAIN containers' \subseteq {Key} /\ DOMAIN posts' \subseteq {Key} /\ UNCHANGED stager
  BY DEF Types, provider
<1>. QED
  BY <1>1, TypesGone

\* A draft that has a state has all its columns.
LEMMA KnownDraft ==
    ASSUME Types, draft.state \in {"prepared", "publishing", "failed", "published"}
    PROVE  draft # NoDraft /\ DraftOK /\ DOMAIN draft = DraftFields
BY DEF Types, NoDraft, DraftOK

\* PublishApproved accepts the receipt, or nothing happens.
LEMMA PublishApprovedEffect ==
    ASSUME Types, NEW w \in Worker, PublishApproved(w)
    PROVE  Types' /\ Effect(w)
<1>1. pc[w] = "approved" /\ UNCHANGED <<uses, draft, stager, provider>>
  BY DEF PublishApproved, Rest
<1>2. CASE Goto(w, "idle")
  BY <1>1, <1>2, RestsOrGoesOn DEF Labels
<1>3. CASE Accepts(w) /\ Goto(w, "mark")
  <2>1. "mark" \in Labels /\ "mark" \notin Claimed \cup Ending /\ "mark" # "idle"
    BY DEF Labels, Claimed, Ending
  <2>2. pc'[w] = "mark" /\ copy'[w] = copy[w] /\ Frame(w)
    BY <1>3, <2>1, Gone DEF Frame
  <2>3. /\ draft' = NoDraft \/ DraftOK'
        /\ UNCHANGED stager
        /\ DOMAIN containers' \subseteq {Key} /\ DOMAIN posts' \subseteq {Key}
    BY <1>1 DEF Types, DraftOK, stager, provider
  <2>4. Types'
    BY <1>3, <2>1, <2>3, TypesGone
  <2>. QED
    BY <1>1, <1>3, <2>2, <2>4 DEF Effect, Accepted, Accepts, Known, bindingFor
<1>. QED
  BY <1>2, <1>3 DEF PublishApproved

\* MarkAuthorized: the draft is authorized, or nothing happens.
LEMMA MarkAuthorizedEffect ==
    ASSUME Types, NEW w \in Worker, MarkAuthorized(w)
    PROVE  Types' /\ Effect(w)
<1>1. pc[w] = "mark" /\ UNCHANGED <<uses, stager, provider>>
  BY DEF MarkAuthorized
<1>2. CASE Goto(w, "idle") /\ UNCHANGED draft
  BY <1>1, <1>2, RestsOrGoesOn DEF Labels
<1>3. ASSUME NEW label \in {"resume", "idle"}, Goto(w, label),
             draft.state \in {"prepared", "failed"},
             draft' = [draft EXCEPT !.authorized = copy[w].expires]
      PROVE  Types' /\ Effect(w)
  <2>1. DraftOK /\ draft # NoDraft /\ DOMAIN draft = DraftFields
    BY <1>3, KnownDraft
  <2>2. PICK a : a = copy[w].expires
    OBVIOUS
  <2>3. draft' = [draft EXCEPT !.authorized = a]
    BY <1>3, <2>2
  <2>4. /\ DOMAIN draft' = DraftFields
        /\ \A f \in DraftFields \ {"authorized"} : draft'[f] = draft[f]
    BY <2>1, <2>3
  <2>5. DraftOK' /\ Updates({"authorized"})
    BY <1>1, <2>1, <2>4 DEF DraftOK, Updates, DraftFields, NoDraft, stager
  <2>6. pc'[w] = label /\ Frame(w) /\ label \in Labels /\ label \notin Claimed \cup Ending
    BY <1>3, Gone DEF Frame, Labels, Claimed, Ending
  <2>7. Types'
    BY <1>1, <1>3, <2>5, <2>6, UpdatesTypes
  <2>. QED
    BY <1>1, <2>1, <2>5, <2>6, <2>7 DEF Effect, Authorized
<1>. QED
  BY <1>2, <1>3 DEF MarkAuthorized

\* Resume, Get, Check and Die.
LEMMA MovesEffect ==
    ASSUME Types, NEW w \in Worker, Resume(w) \/ Get(w) \/ Check(w) \/ Die(w)
    PROVE  Types' /\ Effect(w)
<1>1. UNCHANGED <<uses, draft, stager, provider>>
  BY DEF Resume, Get, Check, Die, Rest
<1>2. PICK label \in {"idle", "resume", "claim", "publish", "fail"} :
         Goto(w, label) /\ (label \in {"publish", "fail"} => pc[w] = "check")
  BY DEF Resume, Get, Check, Die
<1>. QED
  BY <1>1, <1>2, RestsOrGoesOn DEF Labels, Claimed, Polling

\* Claim takes the draft, finds it published or finds that it may not.
LEMMA ClaimEffect ==
    ASSUME Types, NEW w \in Worker, Claim(w)
    PROVE  Types' /\ Effect(w)
<1>1. pc[w] = "claim" /\ UNCHANGED <<uses, stager, provider>>
  BY DEF Claim
<1>2. CASE Goto(w, "idle") /\ UNCHANGED draft
  BY <1>1, <1>2, RestsOrGoesOn DEF Labels
<1>3. ASSUME DraftOK, DraftOK', draft'.state \in {"publishing", "published"},
             With(w, "stage", Copied(draft'))
      PROVE  Types' /\ Frame(w) /\ pc'[w] = "stage" /\ copy'[w] = Copied(draft')
  <2>1. PICK c : c = Copied(draft')
    OBVIOUS
  <2>2. "stage" \in Labels /\ With(w, "stage", c) /\ "stage" # "idle"
    BY <1>3, <2>1 DEF Labels, Claimed
  <2>3. /\ pc' \in [Worker -> Labels] /\ copy' = [v \in Worker |-> copy'[v]]
        /\ pc'[w] = "stage" /\ copy'[w] = c
        /\ \A v \in Worker : v # w => pc'[v] = pc[v] /\ copy'[v] = copy[v]
        /\ UNCHANGED <<now, requests, trail, janitor, recovered>>
    BY <2>2, Moved
  <2>4. CopyOK(w)'
    BY <1>3, <2>1, <2>3 DEF CopyOK, Copied, CopyFields, DraftOK
  <2>5. /\ mediaCount' = mediaCount /\ mediaCount \in Nat /\ staged' \subseteq 1 .. mediaCount'
        /\ DOMAIN containers' \subseteq {Key} /\ DOMAIN posts' \subseteq {Key}
        /\ mediaCount' >= mediaCount
    BY <1>1 DEF Types, stager, provider
  <2>6. Types'
    BY <1>3, <2>3, <2>4, <2>5, TypesMove
  <2>. QED
    BY <2>1, <2>3, <2>6 DEF Frame
<1>4. CASE /\ Claimable /\ draft' = [draft EXCEPT !.state = "publishing", !.attempts = @ + 1]
           /\ With(w, "stage", Copied(draft'))
  <2>1. /\ draft.state \in {"prepared", "failed"} /\ draft.authorized # Null
        /\ now >= draft.content.publishAt
    BY <1>4 DEF Claimable
  <2>2. DraftOK /\ draft # NoDraft /\ DOMAIN draft = DraftFields
    BY <2>1, KnownDraft
  <2>3. /\ DOMAIN draft' = DraftFields /\ draft'.state = "publishing"
        /\ \A f \in DraftFields \ {"state", "attempts"} : draft'[f] = draft[f]
    BY <1>4, <2>2 DEF DraftFields
  <2>4. DraftOK' /\ Updates({"state", "attempts"})
    BY <1>1, <2>2, <2>3 DEF DraftOK, Updates, DraftFields, NoDraft, stager
  <2>. QED
    BY <1>1, <1>3, <1>4, <2>1, <2>2, <2>3, <2>4 DEF Takes, Effect
<1>5. CASE draft.state = "published" /\ With(w, "stage", Copied(draft)) /\ draft' = draft
  <2>1. DraftOK
    BY <1>5, KnownDraft
  <2>2. DraftOK'
    BY <1>1, <1>5, <2>1 DEF DraftOK, stager
  <2>3. Copied(draft') = Copied(draft)
    BY <1>5
  <2>. QED
    BY <1>1, <1>3, <1>5, <2>1, <2>2, <2>3 DEF FindsPublished, Effect
<1>. QED
  BY <1>2, <1>4, <1>5 DEF Claim

\* Stage keeps the medium, makes another one or fails.
LEMMA StageEffect ==
    ASSUME Types, NEW w \in Worker, Stage(w)
    PROVE  Types' /\ Effect(w)
<1>1. pc[w] = "stage" /\ UNCHANGED <<uses, draft, provider>> /\ pc[w] \in Claimed
  BY DEF Stage, Claimed
<1>2. CASE UNCHANGED stager
  <2>1. \/ Goto(w, "fail")
        \/ With(w, "container", [copy[w] EXCEPT !.seen = now]) /\ copy[w].staging # 0
    <3>1. mediaCount' # mediaCount + 1
      BY <1>2 DEF stager, Types
    <3>. QED
      BY <3>1 DEF Stage
  <2>2. CASE Goto(w, "fail")
    BY <1>1, <1>2, <2>2, RestsOrGoesOn DEF Labels, Claimed, Polling
  <2>3. CASE With(w, "container", [copy[w] EXCEPT !.seen = now]) /\ copy[w].staging # 0
    <3>1. PICK c : c = [copy[w] EXCEPT !.seen = now]
      OBVIOUS
    <3>2. With(w, "container", c) /\ "container" \in Labels /\ "container" # "idle"
      BY <2>3, <3>1 DEF Labels, Claimed
    <3>3. /\ pc' \in [Worker -> Labels] /\ copy' = [v \in Worker |-> copy'[v]]
          /\ pc'[w] = "container" /\ copy'[w] = c
          /\ \A v \in Worker : v # w => pc'[v] = pc[v] /\ copy'[v] = copy[v]
          /\ UNCHANGED <<now, requests, trail, janitor, recovered>>
      BY <3>2, Moved
    <3>4. CopyOK(w) /\ DOMAIN copy[w] = CopyFields /\ now \in Nat
      BY <1>1 DEF Types, CopyOK
    <3>5. /\ DOMAIN c = CopyFields /\ \A f \in CopyFields \ {"seen"} : c[f] = copy[w][f]
          /\ c.seen = now
      BY <3>1, <3>4 DEF CopyFields
    <3>6. /\ mediaCount' = mediaCount /\ mediaCount \in Nat /\ staged' \subseteq 1 .. mediaCount'
          /\ DOMAIN containers' \subseteq {Key} /\ DOMAIN posts' \subseteq {Key}
          /\ mediaCount' >= mediaCount
          /\ draft' = NoDraft \/ DraftOK'
      BY <1>1, <1>2 DEF Types, DraftOK, stager, provider
    <3>7. CopyOK(w)'
      BY <3>3, <3>4, <3>5, <3>6 DEF CopyOK, CopyFields
    <3>8. Types'
      BY <3>3, <3>6, <3>7, TypesMove
    <3>9. Reuses(w)
      BY <1>1, <1>2, <2>3, <3>3, <3>5 DEF Reuses, Frame, CopyKept
    <3>. QED
      BY <3>8, <3>9 DEF Effect
  <2>. QED
    BY <2>1, <2>2, <2>3
<1>3. CASE /\ staged' = staged \cup {mediaCount + 1} /\ mediaCount' = mediaCount + 1
           /\ \E until \in {now + Margin, now + StageTTL} :
                 \/ /\ until > now + Margin
                    /\ With(w, "saveStaging",
                            [copy[w] EXCEPT !.staging = mediaCount + 1, !.until = until,
                                            !.seen = now])
                 \/ Goto(w, "fail")
  <2>0. mediaCount \in Nat /\ mediaCount' \in Nat /\ mediaCount' >= mediaCount
        /\ staged' \subseteq 1 .. mediaCount'
    <3>1. mediaCount \in Nat /\ \A m \in staged : m \in 1 .. mediaCount
      BY DEF Types
    <3>2. \A m \in staged' : m \in staged \/ m = mediaCount + 1
      BY <1>3
    <3>3. mediaCount' = mediaCount + 1
      BY <1>3
    <3>4. \A m \in staged' : m \in 1 .. mediaCount'
      BY <3>1, <3>2, <3>3
    <3>. QED
      BY <3>1, <3>3, <3>4
  <2>1. PICK until :
           /\ until \in Nat
           /\ \/ /\ until > now + Margin
                 /\ With(w, "saveStaging", [copy[w] EXCEPT !.staging = mediaCount + 1, !.until = until,
                                                           !.seen = now])
              \/ Goto(w, "fail")
    <3>1. now + Margin \in Nat /\ now + StageTTL \in Nat
      BY TimesAssumption DEF Types
    <3>. QED
      BY <1>3, <3>1
  <2>2. PICK label, c :
           /\ label \in {"saveStaging", "fail"} /\ With(w, label, c)
           /\ \/ label = "fail" /\ c = copy[w]
              \/ /\ label = "saveStaging" /\ until > now + Margin
                 /\ c = [copy[w] EXCEPT !.staging = mediaCount + 1, !.until = until, !.seen = now]
    BY <2>1 DEF Goto
  <2>3. label \in Labels /\ label # "idle" /\ label \in Claimed
    BY <2>2 DEF Labels, Claimed
  <2>4. /\ pc' \in [Worker -> Labels] /\ copy' = [v \in Worker |-> copy'[v]]
        /\ pc'[w] = label /\ copy'[w] = c
        /\ \A v \in Worker : v # w => pc'[v] = pc[v] /\ copy'[v] = copy[v]
        /\ UNCHANGED <<now, requests, trail, janitor, recovered>>
    BY <2>2, <2>3, Moved
  <2>5. CopyOK(w) /\ DOMAIN copy[w] = CopyFields
    BY <1>1 DEF Types, CopyOK
  <2>6. /\ DOMAIN c = CopyFields /\ \A f \in CopyFields \ {"staging", "until", "seen"} : c[f] = copy[w][f]
        /\ label = "saveStaging" => /\ c.staging = mediaCount + 1 /\ c.until = until
                                    /\ c.seen = now /\ until > now + Margin
        /\ label = "fail" => c = copy[w]
    BY <2>2, <2>5 DEF CopyFields
  <2>9. CopyOK(w)'
    <3>1. c.state = copy[w].state /\ c.container = copy[w].container
      BY <2>6 DEF CopyFields
    <3>2. c.until \in Nat /\ c.seen \in Nat
      BY <2>2, <2>5, <2>6, <2>1 DEF CopyOK, Types
    <3>3. c.staging \in 0 .. mediaCount'
      <4>1. copy[w].staging \in 0 .. mediaCount
        BY <2>5 DEF CopyOK
      <4>2. c.staging = mediaCount' \/ c.staging = copy[w].staging
        BY <1>3, <2>2, <2>6
      <4>. QED
        BY <2>0, <4>1, <4>2
    <3>. QED
      BY <2>4, <2>5, <2>6, <3>1, <3>2, <3>3 DEF CopyOK
  <2>10. draft' = NoDraft \/ DraftOK'
    BY <1>1, <2>0, DraftStays
  <2>11. Types'
    <3>1. DOMAIN containers' \subseteq {Key} /\ DOMAIN posts' \subseteq {Key}
      BY <1>1 DEF Types, provider
    <3>. QED
      BY <2>4, <2>0, <2>9, <2>10, <3>1, TypesMove
  <2>12. label = "saveStaging" => c.seen + TicksPerSecond <= c.until
    <3>1. now \in Nat /\ Margin \in Nat /\ Margin >= TicksPerSecond /\ TicksPerSecond \in Nat
      BY TimesAssumption, TicksAssumption DEF Types
    <3>. QED
      BY <2>1, <2>6, <3>1
  <2>13. Stages(w)
    BY <1>1, <1>3, <2>2, <2>4, <2>6, <2>12 DEF Stages, Frame, CopyKept
  <2>. QED
    BY <2>11, <2>13 DEF Effect
<1>. QED
  BY <1>2, <1>3 DEF Stage

\* SaveStaging and SaveContainer write the draft while it is being published.
LEMMA SaveEffect ==
    ASSUME Types, NEW w \in Worker, SaveStaging(w) \/ SaveContainer(w)
    PROVE  Types' /\ Effect(w)
<1>1. /\ UNCHANGED <<uses, stager, provider>> /\ pc[w] \in {"saveStaging", "saveContainer"}
      /\ pc[w] \in Claimed
  BY DEF SaveStaging, SaveContainer, Claimed
<1>2. CopyOK(w) /\ mediaCount' = mediaCount
  BY <1>1 DEF Types, stager
<1>3. CASE UNCHANGED draft
  <2>1. PICK label \in {"fail", "container", "poll"} :
           /\ Goto(w, label)
           /\ label = "container" => pc[w] = "saveStaging"
           /\ label = "poll" => pc[w] = "saveContainer"
    BY DEF SaveStaging, SaveContainer
  <2>. QED
    BY <1>1, <1>3, <2>1, RestsOrGoesOn DEF Labels, Claimed, Polling
<1>4. CASE /\ pc[w] = "saveStaging" /\ Goto(w, "container") /\ draft.state = "publishing"
           /\ draft' = [draft EXCEPT !.staging = copy[w].staging, !.until = copy[w].until]
  <2>1. DraftOK /\ draft # NoDraft /\ DOMAIN draft = DraftFields
    BY <1>4, KnownDraft
  <2>2. /\ DOMAIN draft' = DraftFields
        /\ draft'.staging = copy[w].staging /\ draft'.until = copy[w].until
        /\ \A f \in DraftFields \ {"staging", "until"} : draft'[f] = draft[f]
    BY <1>4, <2>1 DEF DraftFields
  <2>3. DraftOK' /\ Updates({"staging", "until"})
    BY <1>2, <2>1, <2>2 DEF DraftOK, CopyOK, Updates, DraftFields, NoDraft
  <2>4. pc'[w] = "container" /\ copy'[w] = copy[w] /\ Frame(w) /\ "container" \in Labels
    BY <1>4, Gone DEF Frame, Labels, Claimed
  <2>5. Types'
    BY <1>1, <1>4, <2>3, <2>4, UpdatesTypes
  <2>. QED
    BY <1>1, <1>4, <2>2, <2>3, <2>4, <2>5 DEF SavesMedium, Effect
<1>5. CASE /\ pc[w] = "saveContainer" /\ Goto(w, "poll") /\ draft.state = "publishing"
           /\ draft' = [draft EXCEPT !.container = copy[w].container]
  <2>1. DraftOK /\ draft # NoDraft /\ DOMAIN draft = DraftFields
    BY <1>5, KnownDraft
  <2>2. /\ DOMAIN draft' = DraftFields /\ draft'.container = copy[w].container
        /\ \A f \in DraftFields \ {"container"} : draft'[f] = draft[f]
    BY <1>5, <2>1 DEF DraftFields
  <2>3. DraftOK' /\ Updates({"container"})
    BY <1>2, <2>1, <2>2 DEF DraftOK, CopyOK, Updates, DraftFields, NoDraft
  <2>4. pc'[w] = "poll" /\ copy'[w] = copy[w] /\ Frame(w) /\ "poll" \in Labels
    BY <1>5, Gone DEF Frame, Labels, Claimed
  <2>5. Types'
    BY <1>1, <1>5, <2>3, <2>4, UpdatesTypes
  <2>. QED
    BY <1>1, <1>5, <2>2, <2>3, <2>4, <2>5 DEF SavesContainer, Effect
<1>. QED
  BY <1>3, <1>4, <1>5 DEF SaveStaging, SaveContainer

\* The provider makes a thing for the key, unless it has one.
LEMMA MadeOnce ==
    ASSUME NEW things, DOMAIN things \subseteq {Key}, NEW thing,
           NEW m, m = Made(things, Key, thing)
    PROVE  /\ DOMAIN m = {Key}
           /\ \A k \in DOMAIN m : \/ k \in DOMAIN things /\ m[k] = things[k]
                                  \/ m[k] = thing
BY DEF Made

\* CreateContainer makes the container, or the draft has one.
LEMMA CreateContainerEffect ==
    ASSUME Types, NEW w \in Worker, CreateContainer(w)
    PROVE  Types' /\ Effect(w)
<1>1. pc[w] = "container" /\ UNCHANGED <<uses, draft, stager, posts>> /\ pc[w] \in Claimed
  BY DEF CreateContainer, Claimed
<1>2. CASE UNCHANGED containers /\ \E label \in {"poll", "fail"} :
              Goto(w, label) /\ (label = "poll" => copy[w].container # 0)
  BY <1>1, <1>2, RestsOrGoesOn DEF Labels, Claimed, Polling, provider
<1>3. ASSUME NEW thing, thing = [content |-> copy[w].content, status |-> "IN_PROGRESS"],
             containers' = Made(containers, Key, thing),
             NEW label \in {"saveContainer", "fail"}, NEW c, With(w, label, c),
             \/ label = "fail" /\ c = copy[w]
             \/ label = "saveContainer" /\ c = [copy[w] EXCEPT !.container = Key]
      PROVE  Types' /\ Effect(w)
  <2>1. label \in Labels /\ label # "idle" /\ label \in Claimed
    BY <1>3 DEF Labels, Claimed
  <2>2. /\ pc' \in [Worker -> Labels] /\ copy' = [v \in Worker |-> copy'[v]]
        /\ pc'[w] = label /\ copy'[w] = c
        /\ \A v \in Worker : v # w => pc'[v] = pc[v] /\ copy'[v] = copy[v]
        /\ UNCHANGED <<now, requests, trail, janitor, recovered>>
    BY <1>3, <2>1, Moved
  <2>3. CopyOK(w) /\ DOMAIN copy[w] = CopyFields
    BY <1>1 DEF Types, CopyOK
  <2>4. /\ DOMAIN c = CopyFields /\ \A f \in CopyFields \ {"container"} : c[f] = copy[w][f]
        /\ label = "saveContainer" => c.container = Key
        /\ label = "fail" => c.container = copy[w].container
    BY <1>3, <2>3 DEF CopyFields
  <2>5. DOMAIN containers \subseteq {Key} /\ DOMAIN posts' \subseteq {Key}
    BY <1>1 DEF Types
  <2>6. /\ DOMAIN containers' = {Key} /\ DOMAIN containers \subseteq DOMAIN containers'
        /\ \A k \in DOMAIN containers' :
              \/ k \in DOMAIN containers /\ containers'[k] = containers[k]
              \/ /\ DOMAIN containers'[k] = {"content", "status"}
                 /\ containers'[k].content = copy[w].content
    <3>1. DOMAIN thing = {"content", "status"} /\ thing.content = copy[w].content
      BY <1>3
    <3>2. /\ DOMAIN containers' = {Key}
          /\ \A k \in DOMAIN containers' : \/ k \in DOMAIN containers /\ containers'[k] = containers[k]
                                           \/ containers'[k] = thing
      BY <1>3, <2>5, MadeOnce
    <3>. QED
      BY <2>5, <3>1, <3>2
  <2>7. /\ mediaCount' = mediaCount /\ mediaCount \in Nat /\ staged' \subseteq 1 .. mediaCount'
        /\ mediaCount' >= mediaCount
    BY <1>1 DEF Types, stager
  <2>8. CopyOK(w)'
    <3>1. /\ c.state = copy[w].state /\ c.staging = copy[w].staging /\ c.until = copy[w].until
          /\ c.seen = copy[w].seen /\ c.container \in {0, Key}
      BY <1>3, <2>3, <2>4 DEF CopyFields, CopyOK
    <3>. QED
      BY <2>2, <2>3, <2>4, <2>7, <3>1 DEF CopyOK
  <2>9. Types'
    <3>1. draft' = NoDraft \/ DraftOK'
      BY <1>1, <2>7, DraftStays
    <3>. QED
      BY <2>2, <2>5, <2>6, <2>7, <2>8, <3>1, TypesMove
  <2>10. Contains(w)
    BY <1>1, <2>2, <2>4, <2>6 DEF Contains, Frame, CopyKept
  <2>. QED
    BY <2>9, <2>10 DEF Effect
<1>4. PICK thing : thing = [content |-> copy[w].content, status |-> "IN_PROGRESS"]
  OBVIOUS
<1>5. PICK c, d : c = copy[w] /\ d = [copy[w] EXCEPT !.container = Key]
  OBVIOUS
<1>6. \/ copy[w].container # 0 /\ Goto(w, "poll") /\ UNCHANGED containers
      \/ containers' = Made(containers, Key, thing) /\ With(w, "saveContainer", d)
      \/ (containers' = containers \/ containers' = Made(containers, Key, thing)) /\ With(w, "fail", c)
  BY <1>4, <1>5 DEF CreateContainer, Goto
<1>7. CASE containers' = Made(containers, Key, thing) /\ With(w, "saveContainer", d)
  BY <1>3, <1>4, <1>5, <1>7
<1>8. CASE containers' = Made(containers, Key, thing) /\ With(w, "fail", c)
  BY <1>3, <1>4, <1>5, <1>8
<1>9. CASE UNCHANGED containers /\ With(w, "fail", c)
  BY <1>2, <1>5, <1>9 DEF Goto
<1>. QED
  BY <1>2, <1>6, <1>7, <1>8, <1>9

\* ContainerStatus.
LEMMA PollEffect ==
    ASSUME Types, NEW w \in Worker, Poll(w)
    PROVE  Types' /\ Effect(w)
<1>1. pc[w] = "poll" /\ UNCHANGED <<uses, draft, stager, provider>> /\ pc[w] \in Claimed
  BY DEF Poll, Claimed
<1>2. CASE \E label \in {"check", "fail"} : Goto(w, label)
  BY <1>1, <1>2, RestsOrGoesOn DEF Labels, Claimed, Polling
<1>3. CASE With(w, "poll", [copy[w] EXCEPT !.polls = @ + 1])
  <2>1. PICK c : c = [copy[w] EXCEPT !.polls = @ + 1]
    OBVIOUS
  <2>2. With(w, "poll", c) /\ "poll" \in Labels /\ "poll" # "idle"
    BY <1>3, <2>1 DEF Labels, Claimed
  <2>3. /\ pc' \in [Worker -> Labels] /\ copy' = [v \in Worker |-> copy'[v]]
        /\ pc'[w] = "poll" /\ copy'[w] = c
        /\ \A v \in Worker : v # w => pc'[v] = pc[v] /\ copy'[v] = copy[v]
        /\ UNCHANGED <<now, requests, trail, janitor, recovered>>
    BY <2>2, Moved
  <2>4. CopyOK(w) /\ DOMAIN copy[w] = CopyFields
    BY <1>1 DEF Types, CopyOK
  <2>5. DOMAIN c = CopyFields /\ \A f \in CopyFields \ {"polls"} : c[f] = copy[w][f]
    BY <2>1, <2>4
  <2>6. /\ mediaCount' = mediaCount /\ mediaCount \in Nat /\ staged' \subseteq 1 .. mediaCount'
        /\ DOMAIN containers' \subseteq {Key} /\ DOMAIN posts' \subseteq {Key}
        /\ mediaCount' >= mediaCount
    BY <1>1 DEF Types, stager, provider
  <2>7. CopyOK(w)'
    BY <2>3, <2>4, <2>5, <2>6 DEF CopyOK, CopyFields
  <2>8. Types'
    <3>1. draft' = NoDraft \/ DraftOK'
      BY <1>1, <2>6, DraftStays
    <3>. QED
      BY <2>3, <2>6, <2>7, <3>1, TypesMove
  <2>9. GoesOn(w)
    BY <1>1, <2>3, <2>5 DEF GoesOn, Frame, CopyKept, Claimed, Polling
  <2>. QED
    BY <2>8, <2>9 DEF Effect
<1>. QED
  BY <1>2, <1>3 DEF Poll

\* PublishContainer makes the post, whether or not the worker hears of it.
LEMMA PublishContainerEffect ==
    ASSUME Types, NEW w \in Worker, PublishContainer(w)
    PROVE  Types' /\ Effect(w)
<1>1. pc[w] = "publish" /\ UNCHANGED <<uses, draft, stager, containers>> /\ pc[w] \in Claimed
  BY DEF PublishContainer, Claimed
<1>2. CASE Goto(w, "fail") /\ UNCHANGED posts
  BY <1>1, <1>2, RestsOrGoesOn DEF Labels, Claimed, Polling, provider
<1>3. PICK thing : thing = [content |-> containers[copy[w].container].content, at |-> now]
  OBVIOUS
<1>4. ASSUME NEW label \in {"complete", "fail"}, Goto(w, label), posts' = Made(posts, Key, thing)
      PROVE  Types' /\ Effect(w)
  <2>1. DOMAIN posts \subseteq {Key} /\ DOMAIN containers' \subseteq {Key}
    BY <1>1 DEF Types
  <2>2. /\ DOMAIN posts' = {Key}
        /\ \A k \in DOMAIN posts' : \/ k \in DOMAIN posts /\ posts'[k] = posts[k]
                                    \/ posts'[k] = thing
    BY <1>4, <2>1, MadeOnce
  <2>3. label \in Labels /\ label # "idle"
    BY <1>4 DEF Labels, Claimed
  <2>4. pc'[w] = label /\ copy'[w] = copy[w] /\ Frame(w)
    BY <1>4, <2>3, Gone DEF Frame
  <2>5. draft' = NoDraft \/ DraftOK'
    BY <1>1 DEF Types, DraftOK, stager
  <2>6. Types'
    BY <1>1, <1>4, <2>1, <2>2, <2>3, <2>5, TypesGone
  <2>7. Posts(w)
    BY <1>1, <1>3, <1>4, <2>1, <2>2, <2>4 DEF Posts
  <2>. QED
    BY <2>6, <2>7 DEF Effect
<1>5. \/ Goto(w, "complete") /\ posts' = Made(posts, Key, thing)
      \/ Goto(w, "fail") /\ (posts' = posts \/ posts' = Made(posts, Key, thing))
  BY <1>3 DEF PublishContainer
<1>. QED
  BY <1>2, <1>4, <1>5

\* Complete makes the draft published, if it is still being published.
LEMMA CompleteEffect ==
    ASSUME Types, NEW w \in Worker, Complete(w)
    PROVE  Types' /\ Effect(w)
<1>1. pc[w] = "complete" /\ UNCHANGED <<uses, stager, provider>> /\ pc[w] \in Claimed
  BY DEF Complete, Claimed
<1>2. CASE Goto(w, "fail") /\ UNCHANGED draft
  BY <1>1, <1>2, RestsOrGoesOn DEF Labels, Claimed, Polling
<1>3. CASE /\ draft.state = "publishing" /\ Goto(w, "cleanup")
           /\ draft' = [draft EXCEPT !.state = "published", !.media = Key]
  <2>1. DraftOK /\ draft # NoDraft /\ DOMAIN draft = DraftFields
    BY <1>3, KnownDraft
  <2>2. /\ DOMAIN draft' = DraftFields /\ draft'.state = "published" /\ draft'.media = Key
        /\ \A f \in DraftFields \ {"state", "media"} : draft'[f] = draft[f]
    BY <1>3, <2>1 DEF DraftFields
  <2>3. DraftOK' /\ Updates({"state", "media"})
    BY <1>1, <2>1, <2>2 DEF DraftOK, Updates, DraftFields, NoDraft, stager
  <2>4. pc'[w] = "cleanup" /\ copy'[w] = copy[w] /\ Frame(w) /\ "cleanup" \in Labels
    BY <1>3, Gone DEF Frame, Labels, Ending
  <2>5. Types'
    BY <1>1, <1>3, <2>3, <2>4, UpdatesTypes
  <2>. QED
    BY <1>1, <1>3, <2>2, <2>3, <2>4, <2>5 DEF Completes, Effect
<1>. QED
  BY <1>2, <1>3 DEF Complete

\* Cleanup: the stager may drop a medium, of a draft that is published.
LEMMA CleanupEffect ==
    ASSUME Types, NEW w \in Worker, Cleanup(w)
    PROVE  Types' /\ Effect(w)
<1>1. /\ pc[w] = "cleanup" /\ UNCHANGED <<uses, draft, mediaCount, provider>>
      /\ pc[w] \in Ending /\ staged' \subseteq staged
  BY DEF Cleanup, Ending
<1>2. PICK label \in {"clear", "idle"} : Goto(w, label)
  BY DEF Cleanup
<1>3. label \in Labels
  BY DEF Labels, Ending
<1>4. /\ pc' \in [Worker -> Labels] /\ copy' = [v \in Worker |-> copy'[v]]
      /\ pc'[w] = label /\ (label # "idle" => copy'[w] = copy[w])
      /\ \A v \in Worker : v # w => pc'[v] = pc[v] /\ copy'[v] = copy[v]
      /\ UNCHANGED <<now, requests, trail, janitor, recovered>>
  BY <1>2, <1>3, Gone
<1>5. /\ mediaCount \in Nat /\ mediaCount' \in Nat /\ mediaCount' >= mediaCount
      /\ staged' \subseteq 1 .. mediaCount'
      /\ DOMAIN containers' \subseteq {Key} /\ DOMAIN posts' \subseteq {Key}
  BY <1>1 DEF Types, provider
<1>6. draft' = NoDraft \/ DraftOK'
  BY <1>1, <1>5, DraftStays
<1>7. pc'[w] \in Claimed \cup Ending => CopyOK(w)'
  <2>1. pc'[w] \in Claimed \cup Ending => label # "idle"
    BY <1>4 DEF Claimed, Ending
  <2>2. CopyOK(w)
    BY <1>1 DEF Types
  <2>. QED
    BY <1>4, <1>5, <2>1, <2>2, CopyStays
<1>8. Types'
  BY <1>4, <1>5, <1>6, <1>7, TypesMove
<1>9. CleansUp(w)
  BY <1>1, <1>4 DEF CleansUp, Frame
<1>. QED
  BY <1>8, <1>9 DEF Effect

\* ClearStaging writes the two staging columns.
LEMMA ClearStagingEffect ==
    ASSUME Types, NEW w \in Worker, ClearStaging(w), draft # NoDraft
    PROVE  Types' /\ Effect(w)
<1>1. /\ pc[w] = "clear" /\ UNCHANGED <<uses, stager, provider>> /\ Goto(w, "idle")
      /\ "idle" \in Labels /\ pc[w] \in Ending
  BY DEF ClearStaging, Labels, Ending
<1>2. CASE UNCHANGED draft
  BY <1>1, <1>2, RestsOrGoesOn
<1>3. CASE draft' = Cleared
  <2>1. DraftOK /\ DOMAIN draft = DraftFields
    BY DEF Types, DraftOK
  <2>2. /\ DOMAIN draft' = DraftFields /\ draft'.staging = 0 /\ draft'.until = 0
        /\ \A f \in DraftFields \ {"staging", "until"} : draft'[f] = draft[f]
    BY <1>3, <2>1 DEF DraftFields, Cleared
  <2>3. DraftOK' /\ Updates({"staging", "until"})
    <3>1. mediaCount' = mediaCount /\ mediaCount \in Nat
      BY <1>1 DEF stager, Types
    <3>2. draft'.staging \in 0 .. mediaCount' /\ draft'.until \in Nat
      BY <2>2, <3>1
    <3>. QED
      BY <2>1, <2>2, <3>2 DEF DraftOK, Updates, DraftFields, NoDraft
  <2>4. pc'[w] = "idle" /\ Frame(w)
    BY <1>1, Gone DEF Frame
  <2>5. Types'
    BY <1>1, <2>3, UpdatesTypes
  <2>. QED
    BY <1>1, <2>2, <2>3, <2>4, <2>5 DEF Clears, Effect
<1>. QED
  BY <1>2, <1>3 DEF ClearStaging

\* Fail gives the draft up if it is still being published.
LEMMA FailEffect ==
    ASSUME Types, NEW w \in Worker, Fail(w)
    PROVE  Types' /\ Effect(w)
<1>1. /\ pc[w] = "fail" /\ UNCHANGED <<uses, stager, provider>> /\ Goto(w, "idle")
      /\ "idle" \in Labels /\ pc[w] \in Claimed
  BY DEF Fail, Labels, Claimed
<1>2. CASE UNCHANGED draft
  BY <1>1, <1>2, RestsOrGoesOn
<1>3. CASE /\ draft.state = "publishing"
           /\ draft' = [draft EXCEPT !.state = "failed", !.available = now + Delay]
  <2>1. DraftOK /\ draft # NoDraft /\ DOMAIN draft = DraftFields
    BY <1>3, KnownDraft
  <2>2. PICK at : at = now + Delay
    OBVIOUS
  <2>3. draft' = [draft EXCEPT !.state = "failed", !.available = at]
    BY <1>3, <2>2
  <2>4. /\ DOMAIN draft' = DraftFields /\ draft'.state = "failed"
        /\ \A f \in DraftFields \ {"state", "available"} : draft'[f] = draft[f]
    BY <2>1, <2>3 DEF DraftFields
  <2>5. DraftOK' /\ Updates({"state", "available"})
    BY <1>1, <2>1, <2>4 DEF DraftOK, Updates, DraftFields, NoDraft, stager
  <2>6. pc'[w] = "idle" /\ Frame(w)
    BY <1>1, Gone DEF Frame
  <2>7. Types'
    BY <1>1, <2>5, UpdatesTypes
  <2>. QED
    BY <1>1, <1>3, <2>4, <2>5, <2>6, <2>7 DEF GivesUp, Effect
<1>. QED
  BY <1>2, <1>3 DEF Fail, Failed

\* Every step of a worker has one of the effects.
LEMMA WorkEffect ==
    ASSUME Types, PublishInv, NEW w \in Worker, Work(w) \/ Die(w)
    PROVE  Types' /\ Effect(w)
<1>1. ClearStaging(w) => draft # NoDraft
  BY DEF ClearStaging, PublishInv, Ending
<1>. QED
  BY <1>1, PublishApprovedEffect, MarkAuthorizedEffect, MovesEffect, ClaimEffect,
     StageEffect, SaveEffect, CreateContainerEffect, PollEffect, PublishContainerEffect, CompleteEffect, CleanupEffect,
     ClearStagingEffect, FailEffect
     DEF Work

----------------------------------------------------------------------------
(***************************************************************************)
(* The other steps by their effect.                                        *)
(***************************************************************************)
Still == UNCHANGED <<draft, pc, copy, stager, provider, janitor, recovered>>

Prepared ==
    /\ draft = NoDraft /\ draft' # NoDraft
    /\ \E c \in Contents : draft' = NewDraft(c)
    /\ UNCHANGED <<now, requests, uses, pc, copy, stager, provider, janitor, recovered>>

Presents(w) ==
    /\ pc'[w] = "approved"
    /\ \E t, c : AuthorizeReceipt(t, Binding(c)) /\ copy'[w].binding = c
    /\ \A v \in Worker : v # w => pc'[v] = pc[v] /\ copy'[v] = copy[v]
    /\ UNCHANGED <<now, draft, stager, provider, janitor, recovered>>

Proceeds ==
    /\ DOMAIN containers' = DOMAIN containers
    /\ \A k \in DOMAIN containers :
          /\ DOMAIN containers'[k] = DOMAIN containers[k]
          /\ "content" \in DOMAIN containers[k] => containers'[k].content = containers[k].content
    /\ UNCHANGED <<now, requests, uses, draft, pc, copy, stager, posts, janitor, recovered>>

Recovers ==
    /\ draft.state = "publishing" /\ draft'.state = "failed" /\ Updates({"state", "available"})
    /\ \/ recovered' = TRUE
       \/ recovered' = recovered /\ \A w \in Worker : ~Publishing(w)
    /\ UNCHANGED <<now, requests, uses, pc, copy, stager, provider, janitor>>

JanitorStep ==
    /\ \/ /\ janitor'.pc = "idle" /\ UNCHANGED <<draft, staged>>                  \* gives up
       \/ /\ janitor.pc = "idle" /\ janitor'.pc = "cleanup" /\ Expired            \* finds
          /\ janitor'.media = draft.staging /\ UNCHANGED <<draft, staged>>
       \/ /\ janitor.pc = "cleanup" /\ janitor'.pc = "clear"                      \* removes
          /\ staged' = staged \ {janitor.media} /\ UNCHANGED draft
       \/ /\ janitor.pc = "clear" /\ janitor'.pc = "idle"                         \* clears
          /\ Updates({"staging", "until"}) /\ draft'.staging = 0 /\ UNCHANGED staged
    /\ UNCHANGED <<now, requests, uses, pc, copy, mediaCount, provider, recovered>>

\* Nothing changes but the approval tables and the clock.
LEMMA StillTypes ==
    ASSUME Types, Still, now' \in Nat
    PROVE  Types'
<1>1. /\ draft' = draft /\ pc' = pc /\ copy' = copy /\ staged' = staged /\ mediaCount' = mediaCount
      /\ containers' = containers /\ posts' = posts /\ janitor' = janitor
  BY DEF Still, stager, provider
<1>. QED
  BY <1>1 DEF Types, DraftOK, CopyOK

\* Prepare makes the draft.
LEMMA PrepareEffect ==
    ASSUME Types, NEW c \in Contents, Prepare(c)
    PROVE  Types' /\ Prepared
<1>1. /\ draft = NoDraft /\ draft' = NewDraft(c)
      /\ UNCHANGED <<now, requests, uses, pc, copy, stager, provider, janitor, recovered>>
  BY DEF Prepare, Known, approvals
<1>2. mediaCount' = mediaCount /\ staged' = staged /\ mediaCount \in Nat
      /\ containers' = containers /\ posts' = posts
  BY <1>1 DEF stager, provider, Types
<1>3. /\ DOMAIN draft' = DraftFields /\ draft'.state = "prepared" /\ draft'.content = c
      /\ draft'.staging = 0 /\ draft'.until = 0 /\ draft'.container = 0
  BY <1>1 DEF NewDraft, DraftFields
<1>4. 0 \in 0 .. mediaCount' /\ 0 \in Nat
  BY <1>2
<1>5. DraftOK'
  BY <1>3, <1>4 DEF DraftOK
<1>6. draft' # NoDraft
  BY <1>3 DEF NoDraft, DraftFields
<1>7. Types'
  BY <1>1, <1>2, <1>5 DEF Types, CopyOK
<1>. QED
  BY <1>1, <1>6, <1>7 DEF Prepared

\* Present uses an approval, and keeps its binding for PublishApproved.
LEMMA PresentEffect ==
    ASSUME Types, NEW w \in Worker, NEW t, NEW c, Present(w, t, c)
    PROVE  Types' /\ Presents(w)
<1>1. /\ pc' = [pc EXCEPT ![w] = "approved"] /\ AuthorizeReceipt(t, Binding(c))
      /\ copy' = [copy EXCEPT ![w] = [binding |-> c, expires |-> requests[t].expires]]
      /\ UNCHANGED <<now, draft, stager, provider, janitor, recovered>>
  BY DEF Present
<1>2. PICK d : d = [binding |-> c, expires |-> requests[t].expires]
  OBVIOUS
<1>3. copy' = [copy EXCEPT ![w] = d] /\ d.binding = c /\ copy = [v \in Worker |-> copy[v]]
      /\ pc \in [Worker -> Labels] /\ "approved" \in Labels
  BY <1>1, <1>2 DEF Types, Labels
<1>4. /\ copy' = [v \in Worker |-> copy'[v]] /\ copy'[w] = d
      /\ \A v \in Worker : v # w => copy'[v] = copy[v]
  BY <1>3
<1>5. /\ pc' \in [Worker -> Labels] /\ pc'[w] = "approved"
      /\ \A v \in Worker : v # w => pc'[v] = pc[v]
  BY <1>1, <1>3
<1>6. mediaCount' = mediaCount /\ mediaCount \in Nat /\ mediaCount' >= mediaCount
      /\ staged' \subseteq 1 .. mediaCount'
      /\ DOMAIN containers' \subseteq {Key} /\ DOMAIN posts' \subseteq {Key}
  BY <1>1 DEF Types, stager, provider
<1>7. draft' = NoDraft \/ DraftOK'
  BY <1>1, <1>6, DraftStays
<1>8. pc'[w] \notin Claimed \cup Ending
  BY <1>5 DEF Claimed, Ending
<1>9. Types'
  BY <1>1, <1>4, <1>5, <1>6, <1>7, <1>8, TypesMove
<1>10. Presents(w)
  BY <1>1, <1>3, <1>4, <1>5 DEF Presents
<1>. QED
  BY <1>9, <1>10

\* The provider changes the status of a container, not its content.
LEMMA ProceedEffect ==
    ASSUME Types, NEW k \in DOMAIN containers, NEW s, Proceed(k, s)
    PROVE  Types' /\ Proceeds
<1>1. /\ containers' = [containers EXCEPT ![k].status = s]
      /\ UNCHANGED <<now, requests, uses, draft, pc, copy, stager, posts, janitor, recovered>>
  BY DEF Proceed, approvals
<1>2. PICK c : c = [containers[k] EXCEPT !.status = s]
  OBVIOUS
<1>3. containers' = [containers EXCEPT ![k] = c]
  BY <1>1, <1>2
<1>4. /\ DOMAIN c = DOMAIN containers[k]
      /\ "content" \in DOMAIN containers[k] => c.content = containers[k].content
  BY <1>2
<1>5. /\ DOMAIN containers' = DOMAIN containers /\ containers'[k] = c
      /\ \A j \in DOMAIN containers : j # k => containers'[j] = containers[j]
  BY <1>3
<1>6. Proceeds
  BY <1>1, <1>4, <1>5 DEF Proceeds
<1>7. Types'
  BY <1>1, <1>5 DEF Types, DraftOK, CopyOK, stager
<1>. QED
  BY <1>6, <1>7

\* Recover fails a draft that is being published.
LEMMA RecoverEffect ==
    ASSUME Types, Recover
    PROVE  Types' /\ Recovers
<1>1. /\ draft.state = "publishing" /\ draft' = [draft EXCEPT !.state = "failed", !.available = now]
      /\ \/ recovered' = TRUE
         \/ recovered' = recovered /\ \A w \in Worker : ~Publishing(w)
      /\ UNCHANGED <<now, requests, uses, pc, copy, stager, provider, janitor>>
  BY DEF Recover, approvals
<1>2. DraftOK /\ draft # NoDraft /\ DOMAIN draft = DraftFields
  BY <1>1, KnownDraft
<1>3. PICK at : at = now
  OBVIOUS
<1>4. draft' = [draft EXCEPT !.state = "failed", !.available = at]
  BY <1>1, <1>3
<1>5. /\ DOMAIN draft' = DraftFields /\ draft'.state = "failed"
      /\ \A f \in DraftFields \ {"state", "available"} : draft'[f] = draft[f]
  BY <1>2, <1>4 DEF DraftFields
<1>6. DraftOK' /\ Updates({"state", "available"})
  BY <1>1, <1>2, <1>5 DEF DraftOK, Updates, DraftFields, NoDraft, stager
<1>7. Types'
  BY <1>1, <1>6 DEF Types, CopyOK, stager, provider
<1>. QED
  BY <1>1, <1>5, <1>6, <1>7 DEF Recovers

\* CleanupExpired in its three steps.
LEMMA JanitorEffect ==
    ASSUME Types, PublishInv, Janitor
    PROVE  Types' /\ JanitorStep
<1>1. /\ UNCHANGED <<now, requests, uses, pc, copy, mediaCount, provider, recovered>>
      /\ mediaCount \in Nat /\ DOMAIN janitor = {"pc", "media"}
  BY DEF Janitor, approvals, Types
<1>2. ASSUME staged' \subseteq staged, draft' = NoDraft \/ DraftOK', DOMAIN janitor' = {"pc", "media"},
             janitor'.pc \in {"idle", "cleanup", "clear"}, janitor'.media \in 0 .. mediaCount
      PROVE  Types'
  <2>1. containers' = containers /\ posts' = posts
    BY <1>1 DEF provider
  <2>. QED
    BY <1>1, <1>2, <2>1 DEF Types, CopyOK
<1>3. ASSUME draft' = draft PROVE draft' = NoDraft \/ DraftOK'
  BY <1>1, <1>3, DraftStays
<1>4. ASSUME janitor' = [pc |-> "idle", media |-> 0], draft' = draft, staged' = staged
      PROVE  Types' /\ JanitorStep
  BY <1>1, <1>2, <1>3, <1>4 DEF JanitorStep
<1>5. ASSUME janitor.pc = "idle", Expired, janitor' = [pc |-> "cleanup", media |-> draft.staging],
             draft' = draft, staged' = staged
      PROVE  Types' /\ JanitorStep
  <2>1. draft.staging \in 0 .. mediaCount
    BY <1>5 DEF Expired, Known, Types, DraftOK
  <2>. QED
    BY <1>1, <1>2, <1>3, <1>5, <2>1 DEF JanitorStep
<1>6. ASSUME janitor.pc = "cleanup", staged' = staged \ {janitor.media},
             janitor' = [janitor EXCEPT !.pc = "clear"], draft' = draft
      PROVE  Types' /\ JanitorStep
  <2>1. DOMAIN janitor' = {"pc", "media"} /\ janitor'.pc = "clear" /\ janitor'.media = janitor.media
    BY <1>1, <1>6
  <2>2. janitor'.media \in 0 .. mediaCount
    BY <2>1 DEF Types
  <2>. QED
    BY <1>1, <1>2, <1>3, <1>6, <2>1, <2>2 DEF JanitorStep
<1>7. ASSUME janitor.pc = "clear", draft' = Cleared, janitor' = [pc |-> "idle", media |-> 0],
             staged' = staged
      PROVE  Types' /\ JanitorStep
  <2>1. draft # NoDraft
    BY <1>7 DEF PublishInv
  <2>2. DraftOK /\ DOMAIN draft = DraftFields
    BY <2>1 DEF Types, DraftOK
  <2>3. /\ DOMAIN draft' = DraftFields /\ draft'.staging = 0 /\ draft'.until = 0
        /\ \A f \in DraftFields \ {"staging", "until"} : draft'[f] = draft[f]
    BY <1>7, <2>2 DEF DraftFields, Cleared
  <2>4. draft'.staging \in 0 .. mediaCount' /\ draft'.until \in Nat
    BY <1>1, <2>3
  <2>5. DraftOK' /\ Updates({"staging", "until"})
    BY <2>1, <2>2, <2>3, <2>4 DEF DraftOK, Updates, DraftFields, NoDraft
  <2>6. /\ DOMAIN janitor' = {"pc", "media"} /\ janitor'.pc = "idle"
        /\ janitor'.media \in 0 .. mediaCount
    BY <1>1, <1>7
  <2>. QED
    BY <1>1, <1>2, <1>7, <2>3, <2>5, <2>6 DEF JanitorStep
<1>. QED
  BY <1>4, <1>5, <1>6, <1>7 DEF Janitor

\* What a step does, to the tables of the approval manager and to the rest.
AnyEffect ==
    \/ Still
    \/ \E w \in Worker : Effect(w) \/ Presents(w)
    \/ Prepared \/ Proceeds \/ Recovers \/ JanitorStep

\* Once it has its receipt, a worker leaves the approval tables alone.
LEMMA WorkApprovals ==
    ASSUME NEW w \in Worker, Work(w) \/ Die(w)
    PROVE  ApprovalQuiet
<1>1. uses' = uses
  BY DEF Work, PublishApproved, MarkAuthorized, Resume, Get, Claim, Stage, SaveStaging,
         CreateContainer, SaveContainer, Poll, Check, PublishContainer, Complete, Cleanup, ClearStaging, Fail, Die,
         Rest
<1>2. \E label, c : With(w, label, c)
  <2>1. ASSUME NEW label, Goto(w, label) PROVE \E c : With(w, label, c)
    BY <2>1 DEF Goto
  <2>2. CASE \/ PublishApproved(w) \/ MarkAuthorized(w) \/ Resume(w) \/ Get(w) \/ SaveStaging(w)
             \/ SaveContainer(w)
    BY <2>1, <2>2 DEF PublishApproved, MarkAuthorized, Resume, Get, SaveStaging, SaveContainer
  <2>3. CASE Claim(w)
    BY <2>1, <2>3 DEF Claim
  <2>4. CASE Stage(w)
    BY <2>1, <2>4 DEF Stage
  <2>5. CASE CreateContainer(w)
    BY <2>1, <2>5 DEF CreateContainer
  <2>6. CASE Poll(w)
    BY <2>1, <2>6 DEF Poll
  <2>7. CASE Check(w) \/ PublishContainer(w) \/ Complete(w) \/ Cleanup(w)
    BY <2>1, <2>7 DEF Check, PublishContainer, Complete, Cleanup
  <2>8. CASE ClearStaging(w) \/ Fail(w) \/ Die(w)
    BY <2>1, <2>8 DEF ClearStaging, Fail, Die
  <2>. QED
    BY <2>2, <2>3, <2>4, <2>5, <2>6, <2>7, <2>8 DEF Work
<1>. QED
  BY <1>1, <1>2 DEF With, ApprovalQuiet, approvals

\* Every step is one that the approval manager allows.
LEMMA NextApprovals ==
    ASSUME [Next]_vars
    PROVE  ApprovalStep
<1>1. CASE UNCHANGED vars
  BY <1>1 DEF vars, ApprovalStep, ApprovalQuiet
<1>2. ASSUME NEW c, Prepare(c) PROVE ApprovalQuiet
  BY <1>2 DEF Prepare, ApprovalQuiet
<1>3. ASSUME NEW c, AskApproval(c) PROVE ApprovalStep
  BY <1>3 DEF AskApproval, ApprovalStep
<1>4. ASSUME NEW t, NEW decision \in {"approved", "denied"}, Answer(t, decision)
      PROVE  ApprovalStep
  <2>1. PICK lost : lost = TRUE
    OBVIOUS
  <2>2. now' = now /\ ResolveToken(t, Owner, decision, lost)
    BY <1>4, <2>1 DEF Answer
  <2>3. \E u, user, d, l : d \in {"approved", "denied"} /\ ResolveToken(u, user, d, l)
    BY <2>2
  <2>. QED
    BY <2>2, <2>3 DEF ApprovalStep
<1>5. ASSUME NEW w, NEW t, NEW c, Present(w, t, c) PROVE ApprovalStep
  BY <1>5 DEF Present, ApprovalStep
<1>6. ASSUME NEW k, NEW s, Proceed(k, s) PROVE ApprovalQuiet
  BY <1>6 DEF Proceed, ApprovalQuiet
<1>7. CASE Recover \/ Janitor
  BY <1>7 DEF Recover, Janitor, ApprovalStep, ApprovalQuiet
<1>8. CASE Tick /\ UNCHANGED approvals
  BY <1>8 DEF Tick, ApprovalStep, ApprovalQuiet
<1>. QED
  BY <1>1, <1>2, <1>3, <1>4, <1>5, <1>6, <1>7, <1>8, WorkApprovals DEF Next, ApprovalStep

\* Every step has one of the effects above, and keeps the types.
LEMMA NextEffect ==
    ASSUME Types, PublishInv, [Next]_vars
    PROVE  Types' /\ AnyEffect /\ now' \in Nat /\ now' >= now
<1>. USE DEF AnyEffect
<1>0. now \in Nat
  BY DEF Types
<1>1. ASSUME Still, now' = now \/ now' = now + 1 PROVE Types' /\ AnyEffect /\ now' \in Nat /\ now' >= now
  <2>1. now' \in Nat /\ now' >= now
    BY <1>0, <1>1
  <2>. QED
    BY <1>1, <2>1, StillTypes
<1>2. CASE UNCHANGED vars
  BY <1>1, <1>2 DEF vars, Still
<1>3. ASSUME NEW c \in Contents, Prepare(c) PROVE Types' /\ AnyEffect /\ now' = now
  BY <1>3, PrepareEffect DEF Prepare
<1>4. ASSUME NEW c, AskApproval(c) PROVE Still /\ now' = now
  BY <1>4 DEF AskApproval, Still
<1>5. ASSUME NEW t, NEW decision, Answer(t, decision) PROVE Still /\ now' = now
  BY <1>5 DEF Answer, Still
<1>6. ASSUME NEW w \in Worker, Work(w) \/ Die(w) PROVE Types' /\ AnyEffect /\ now' = now
  <2>1. Types' /\ Effect(w)
    BY <1>6, WorkEffect
  <2>2. Frame(w)
    BY <2>1 DEF Effect, Rests, Accepted, Authorized, Takes, FindsPublished, GoesOn, Reuses, Stages,
                SavesMedium, Contains, SavesContainer, Posts, Completes, CleansUp, Clears, GivesUp
  <2>. QED
    BY <2>1, <2>2 DEF Frame
<1>7. ASSUME NEW w \in Worker, NEW t, NEW c, Present(w, t, c) PROVE Types' /\ AnyEffect /\ now' = now
  BY <1>7, PresentEffect DEF Present
<1>8. ASSUME NEW k \in DOMAIN containers, NEW s, Proceed(k, s)
      PROVE  Types' /\ AnyEffect /\ now' = now
  BY <1>8, ProceedEffect DEF Proceed
<1>9. ASSUME Recover PROVE Types' /\ AnyEffect /\ now' = now
  BY <1>9, RecoverEffect DEF Recover
<1>10. ASSUME Janitor PROVE Types' /\ AnyEffect /\ now' = now
  <2>1. now' = now
    BY <1>10 DEF Janitor
  <2>. QED
    BY <1>10, <2>1, JanitorEffect
<1>11. CASE /\ Tick
            /\ UNCHANGED <<approvals, draft, pc, copy, stager, provider, janitor, recovered, faults>>
  BY <1>1, <1>11 DEF Tick, Still
<1>. QED
  BY <1>0, <1>1, <1>2, <1>3, <1>4, <1>5, <1>6, <1>7, <1>8, <1>9, <1>10, <1>11 DEF Next

----------------------------------------------------------------------------
(***************************************************************************)
(* Who has the draft.                                                      *)
(***************************************************************************)
\* A step that neither takes, publishes nor drops the draft.
LEMMA OrdinaryPublish ==
    ASSUME PublishInv, recovered' = recovered,
           draft # NoDraft => draft' # NoDraft /\ draft'.content = draft.content
                              /\ draft'.state = draft.state /\ draft'.media = draft.media,
           draft = NoDraft => draft'.state \notin {"publishing", "published"},
           DOMAIN posts \subseteq DOMAIN posts',
           janitor'.pc # "idle" => draft' # NoDraft,
           \A v \in Worker : pc'[v] = "mark" =>
              \/ pc[v] = "mark" /\ copy'[v] = copy[v]
              \/ draft # NoDraft /\ copy'[v].binding = draft.content,
           \A v \in Worker : pc'[v] \in Claimed \cup Ending =>
              /\ pc[v] \in Claimed \cup Ending
              /\ copy'[v].content = copy[v].content /\ copy'[v].state = copy[v].state
              /\ pc'[v] \in Ending <=> pc[v] \in Ending
              /\ pc'[v] = "complete" => pc[v] = "complete" \/ Key \in DOMAIN posts'
    PROVE  PublishInv'
<1>. DEFINE In(v) == pc[v] \in Claimed \cup Ending
            In1(v) == pc'[v] \in Claimed \cup Ending
<1>0. \A v \in Worker : pc'[v] = "mark" => draft' # NoDraft /\ copy'[v].binding = draft'.content
  BY DEF PublishInv
<1>1. \A v \in Worker : In1(v) => draft' # NoDraft /\ copy'[v].content = draft'.content
  BY DEF PublishInv
<1>2. \A v \in Worker : SeesItPublished(v)' => draft'.state = "published"
  <2>1. \A v \in Worker : SeesItPublished(v)' => SeesItPublished(v)
    BY DEF SeesItPublished, Claimed, Ending
  <2>2. \A v \in Worker : SeesItPublished(v) => draft # NoDraft /\ draft.state = "published"
    BY DEF PublishInv, SeesItPublished
  <2>. QED
    BY <2>1, <2>2
<1>3. \A v \in Worker : pc'[v] = "complete" => Key \in DOMAIN posts'
  BY DEF PublishInv, Claimed
<1>4. draft'.state = "published" => draft'.media = Key /\ Key \in DOMAIN posts'
  BY DEF PublishInv
<1>5. \A v \in Worker : Publishing(v)' => Publishing(v)
  BY DEF Publishing, Claimed, Ending
<1>6. ~recovered' => \A v \in Worker : Publishing(v)' =>
                        /\ draft'.state = "publishing"
                        /\ \A u \in Worker : Publishing(u)' => u = v
  <2>1. \A v \in Worker : Publishing(v) => draft # NoDraft
    BY DEF PublishInv, Publishing, Claimed
  <2>. QED
    BY <1>5, <2>1 DEF PublishInv
<1>. QED
  BY <1>0, <1>1, <1>2, <1>3, <1>4, <1>6 DEF PublishInv

\* The columns that a step leaves alone, by name.
LEMMA ColumnsKept ==
    ASSUME NEW columns, Updates(columns)
    PROVE  /\ draft # NoDraft /\ draft' # NoDraft
           /\ "content" \notin columns => draft'.content = draft.content
           /\ "state" \notin columns => draft'.state = draft.state
           /\ "media" \notin columns => draft'.media = draft.media
           /\ "authorized" \notin columns => draft'.authorized = draft.authorized
           /\ "staging" \notin columns => draft'.staging = draft.staging
           /\ "until" \notin columns => draft'.until = draft.until
           /\ "container" \notin columns => draft'.container = draft.container
BY DEF Updates, DraftFields

\* The same for the copy of a worker.
LEMMA FieldsKept ==
    ASSUME NEW w \in Worker, NEW fields, CopyKept(w, fields)
    PROVE  /\ "state" \notin fields => copy'[w].state = copy[w].state
           /\ "content" \notin fields => copy'[w].content = copy[w].content
           /\ "staging" \notin fields => copy'[w].staging = copy[w].staging
           /\ "until" \notin fields => copy'[w].until = copy[w].until
           /\ "container" \notin fields => copy'[w].container = copy[w].container
BY DEF CopyKept, CopyFields

\* Whatever the effect of a step, PublishInv holds after it.
LEMMA PublishKept ==
    ASSUME Types, PublishInv, AnyEffect
    PROVE  PublishInv'
<1>0. /\ draft = NoDraft => draft.state \notin {"publishing", "published"}
      /\ Claimed \cap Ending = {}
      /\ \A x \in {"idle", "resume", "claim", "approved", "mark"} : x \notin Claimed \cup Ending
  BY DEF NoDraft, Claimed, Ending
<1>1. CASE Still
  BY <1>0, <1>1, OrdinaryPublish DEF Still, stager, provider, PublishInv
<1>2. ASSUME NEW w \in Worker, Rests(w) PROVE PublishInv'
  BY <1>0, <1>2, OrdinaryPublish DEF Rests, Frame, provider, PublishInv
<1>3. ASSUME NEW w \in Worker, Presents(w) PROVE PublishInv'
  BY <1>0, <1>3, OrdinaryPublish DEF Presents, provider, PublishInv
<1>4. ASSUME NEW w \in Worker, Authorized(w) PROVE PublishInv'
  BY <1>0, <1>4, ColumnsKept, OrdinaryPublish DEF Authorized, Frame, provider
<1>21. ASSUME NEW w \in Worker, Accepted(w) PROVE PublishInv'
  BY <1>0, <1>21, OrdinaryPublish DEF Accepted, Frame, provider, PublishInv
<1>5. ASSUME NEW w \in Worker, GoesOn(w) PROVE PublishInv'
  BY <1>0, <1>5, FieldsKept, OrdinaryPublish DEF GoesOn, Frame, provider, PublishInv
<1>22. ASSUME NEW w \in Worker, Reuses(w) PROVE PublishInv'
  <2>1. pc[w] \in Claimed /\ pc'[w] \in Claimed /\ pc'[w] # "complete"
    BY <1>22 DEF Reuses, Claimed
  <2>. QED
    BY <1>0, <1>22, <2>1, FieldsKept, OrdinaryPublish DEF Reuses, Frame, provider, PublishInv
<1>6. ASSUME NEW w \in Worker, Stages(w) PROVE PublishInv'
  <2>1. pc[w] \in Claimed /\ pc'[w] \in Claimed /\ pc'[w] # "complete"
    BY <1>6 DEF Stages, Claimed
  <2>. QED
    BY <1>0, <1>6, <2>1, FieldsKept, OrdinaryPublish DEF Stages, Frame, provider, PublishInv
<1>7. ASSUME NEW w \in Worker, SavesMedium(w) \/ SavesContainer(w) PROVE PublishInv'
  <2>1. pc[w] \in Claimed /\ pc'[w] \in Claimed /\ pc'[w] # "complete" /\ copy'[w] = copy[w]
    BY <1>7 DEF SavesMedium, SavesContainer, Claimed
  <2>2. /\ draft # NoDraft /\ draft' # NoDraft /\ draft'.content = draft.content
        /\ draft'.state = draft.state /\ draft'.media = draft.media
    BY <1>7, ColumnsKept DEF SavesMedium, SavesContainer
  <2>3. Frame(w) /\ posts' = posts
    BY <1>7 DEF SavesMedium, SavesContainer, provider
  <2>. QED
    BY <1>0, <2>1, <2>2, <2>3, OrdinaryPublish DEF Frame
<1>8. ASSUME NEW w \in Worker, Contains(w) PROVE PublishInv'
  <2>1. pc[w] \in Claimed /\ pc'[w] \in Claimed /\ pc'[w] # "complete"
    BY <1>8 DEF Contains, Claimed
  <2>2. copy'[w].state = copy[w].state /\ copy'[w].content = copy[w].content
    BY <1>8, FieldsKept DEF Contains
  <2>3. draft' = draft /\ posts' = posts /\ Frame(w)
    BY <1>8 DEF Contains
  <2>. QED
    BY <1>0, <2>1, <2>2, <2>3, OrdinaryPublish DEF Frame, PublishInv
<1>9. ASSUME NEW w \in Worker, Posts(w) PROVE PublishInv'
  <2>1. pc[w] \in Claimed /\ pc'[w] \in Claimed
    BY <1>9 DEF Posts, Claimed
  <2>. QED
    BY <1>0, <1>9, <2>1, OrdinaryPublish DEF Posts, Frame, PublishInv
<1>10. ASSUME NEW w \in Worker, CleansUp(w) PROVE PublishInv'
  <2>1. pc[w] \in Ending /\ (pc'[w] = "idle" \/ (pc'[w] \in Ending /\ copy'[w] = copy[w]))
    BY <1>10 DEF CleansUp, Ending
  <2>2. pc'[w] \in Ending => pc'[w] # "complete"
    BY DEF Ending
  <2>. QED
    BY <1>0, <1>10, <2>1, <2>2, OrdinaryPublish DEF CleansUp, Frame, provider, PublishInv
<1>11. ASSUME NEW w \in Worker, Clears(w) PROVE PublishInv'
  BY <1>0, <1>11, ColumnsKept, OrdinaryPublish DEF Clears, Frame, provider
<1>12. CASE Proceeds
  BY <1>0, <1>12, OrdinaryPublish DEF Proceeds, PublishInv
<1>13. CASE JanitorStep
  <2>1. /\ UNCHANGED <<pc, copy, recovered>> /\ posts' = posts
    BY <1>13 DEF JanitorStep, provider
  <2>2. janitor'.pc # "idle" => draft' # NoDraft
    BY <1>13 DEF JanitorStep, Expired, Known, PublishInv
  <2>3. /\ draft # NoDraft => draft' # NoDraft /\ draft'.content = draft.content
                              /\ draft'.state = draft.state /\ draft'.media = draft.media
        /\ draft = NoDraft => draft' = draft
    BY <1>13, ColumnsKept DEF JanitorStep
  <2>. QED
    BY <1>0, <2>1, <2>2, <2>3, OrdinaryPublish
<1>14. CASE Prepared
  <2>1. draft'.state = "prepared"
    BY <1>14 DEF Prepared, NewDraft
  <2>. QED
    BY <1>14, <2>1, OrdinaryPublish DEF Prepared, provider
<1>15. ASSUME NEW w \in Worker, Takes(w) PROVE PublishInv'
  <2>1. /\ draft # NoDraft /\ draft' # NoDraft /\ draft'.content = draft.content
        /\ draft.state \in {"prepared", "failed"} /\ draft'.state = "publishing"
    BY <1>15, ColumnsKept DEF Takes
  <2>2. /\ pc'[w] = "stage" /\ copy'[w] = Copied(draft') /\ Frame(w) /\ posts' = posts
        /\ pc'[w] \in Claimed /\ pc'[w] \notin Ending
    BY <1>15 DEF Takes, provider, Claimed, Ending
  <2>3. copy'[w].state = "publishing" /\ copy'[w].content = draft'.content
    BY <2>1, <2>2 DEF Copied
  <2>4. \A v \in Worker : ~SeesItPublished(v)
    BY <2>1 DEF PublishInv
  <2>5. \A v \in Worker : ~SeesItPublished(v)'
    BY <2>2, <2>3, <2>4 DEF SeesItPublished, Frame
  <2>6. ~recovered => \A v \in Worker : ~Publishing(v)
    BY <2>1 DEF PublishInv
  <2>7. \A v \in Worker : v # w => (Publishing(v)' <=> Publishing(v))
    BY <2>2 DEF Publishing, Frame
  <2>8. ~recovered' => \A v \in Worker : Publishing(v)' =>
                          /\ draft'.state = "publishing"
                          /\ \A u \in Worker : Publishing(u)' => u = v
    BY <2>1, <2>2, <2>6, <2>7 DEF Frame
  <2>9. \A v \in Worker : pc'[v] \in Claimed \cup Ending =>
           draft' # NoDraft /\ copy'[v].content = draft'.content
    BY <2>1, <2>2, <2>3 DEF PublishInv, Frame
  <2>10. \A v \in Worker : pc'[v] = "complete" => Key \in DOMAIN posts'
    BY <2>2 DEF PublishInv, Frame
  <2>. QED
    BY <2>1, <2>2, <2>5, <2>8, <2>9, <2>10 DEF PublishInv, Frame
<1>16. ASSUME NEW w \in Worker, FindsPublished(w) PROVE PublishInv'
  <2>1. draft' = draft /\ draft.state = "published" /\ draft # NoDraft /\ posts' = posts
    BY <1>0, <1>16 DEF FindsPublished, provider
  <2>2. /\ pc'[w] = "stage" /\ copy'[w] = Copied(draft) /\ Frame(w)
    BY <1>16 DEF FindsPublished
  <2>3. copy'[w].state = "published" /\ copy'[w].content = draft'.content
    BY <2>1, <2>2 DEF Copied
  <2>4. ~Publishing(w)'
    BY <2>3 DEF Publishing
  <2>5. \A v \in Worker : v # w => (Publishing(v)' <=> Publishing(v))
    BY <2>2 DEF Publishing, Frame
  <2>6. ~recovered' => \A v \in Worker : Publishing(v)' =>
                          /\ draft'.state = "publishing"
                          /\ \A u \in Worker : Publishing(u)' => u = v
    BY <2>1, <2>2, <2>4, <2>5 DEF Frame, PublishInv
  <2>7. \A v \in Worker : pc'[v] \in Claimed \cup Ending =>
           draft' # NoDraft /\ copy'[v].content = draft'.content
    BY <2>1, <2>2, <2>3 DEF PublishInv, Frame
  <2>8. \A v \in Worker : pc'[v] = "complete" => Key \in DOMAIN posts'
    BY <2>1, <2>2 DEF PublishInv, Frame
  <2>. QED
    BY <2>1, <2>2, <2>6, <2>7, <2>8 DEF PublishInv, Frame
<1>17. ASSUME NEW w \in Worker, Completes(w) PROVE PublishInv'
  <2>1. /\ draft # NoDraft /\ draft' # NoDraft /\ draft'.content = draft.content
        /\ draft.state = "publishing" /\ draft'.state = "published" /\ draft'.media = Key
    BY <1>17, ColumnsKept DEF Completes
  <2>2. /\ pc[w] = "complete" /\ pc'[w] = "cleanup" /\ copy'[w] = copy[w] /\ Frame(w)
        /\ posts' = posts /\ pc[w] \in Claimed
    BY <1>17 DEF Completes, provider, Claimed
  <2>3. Key \in DOMAIN posts' /\ copy[w].content = draft.content
    BY <2>2 DEF PublishInv
  <2>4. Publishing(w)
    <3>1. copy[w].state # "published"
      BY <2>1, <2>2 DEF PublishInv, SeesItPublished
    <3>2. copy[w].state \in {"publishing", "published"}
      BY <2>2 DEF Types, CopyOK
    <3>. QED
      BY <2>2, <3>1, <3>2 DEF Publishing
  <2>5. ~Publishing(w)' /\ \A v \in Worker : v # w => (Publishing(v)' <=> Publishing(v))
    BY <2>2 DEF Publishing, Frame
  <2>6. ~recovered' => \A v \in Worker : ~Publishing(v)'
    BY <2>2, <2>4, <2>5 DEF PublishInv, Frame
  <2>7. \A v \in Worker : pc'[v] \in Claimed \cup Ending =>
           draft' # NoDraft /\ copy'[v].content = draft'.content
    BY <2>1, <2>2, <2>3 DEF PublishInv, Frame
  <2>8. \A v \in Worker : pc'[v] = "complete" => Key \in DOMAIN posts'
    BY <2>3
  <2>. QED
    BY <2>1, <2>2, <2>3, <2>6, <2>7, <2>8 DEF PublishInv, Frame
<1>18. ASSUME draft.state = "publishing", draft'.state = "failed", Updates({"state", "available"}),
              posts' = posts, janitor' = janitor,
              \A v \in Worker : pc'[v] \in Claimed \cup Ending \cup {"mark"} =>
                 pc'[v] = pc[v] /\ copy'[v] = copy[v],
              ~recovered' => \A v \in Worker : ~Publishing(v)'
       PROVE  PublishInv'
  <2>1. draft # NoDraft /\ draft' # NoDraft /\ draft'.content = draft.content
    BY <1>18, ColumnsKept
  <2>2. \A v \in Worker : ~SeesItPublished(v)
    BY <1>18 DEF PublishInv
  <2>3. \A v \in Worker : ~SeesItPublished(v)'
    BY <1>18, <2>2 DEF SeesItPublished
  <2>4. \A v \in Worker : pc'[v] \in Claimed \cup Ending =>
           draft' # NoDraft /\ copy'[v].content = draft'.content
    BY <1>18, <2>1 DEF PublishInv
  <2>5. \A v \in Worker : pc'[v] = "complete" => Key \in DOMAIN posts'
    BY <1>18 DEF PublishInv, Claimed
  <2>6. \A v \in Worker : pc'[v] = "mark" => draft' # NoDraft /\ copy'[v].binding = draft'.content
    BY <1>18, <2>1 DEF PublishInv
  <2>. QED
    BY <1>18, <2>1, <2>3, <2>4, <2>5, <2>6 DEF PublishInv
<1>19. ASSUME NEW w \in Worker, GivesUp(w) PROVE PublishInv'
  <2>1. /\ pc[w] = "fail" /\ pc'[w] = "idle" /\ Frame(w) /\ posts' = posts /\ pc[w] \in Claimed
        /\ draft.state = "publishing" /\ draft'.state = "failed" /\ Updates({"state", "available"})
    BY <1>19 DEF GivesUp, provider, Claimed
  <2>2. Publishing(w)
    <3>1. copy[w].state # "published"
      BY <2>1 DEF PublishInv, SeesItPublished
    <3>2. copy[w].state \in {"publishing", "published"}
      BY <2>1 DEF Types, CopyOK
    <3>. QED
      BY <2>1, <3>1, <3>2 DEF Publishing
  <2>3. ~Publishing(w)' /\ \A v \in Worker : v # w => (Publishing(v)' <=> Publishing(v))
    BY <2>1 DEF Publishing, Frame
  <2>4. ~recovered' => \A v \in Worker : ~Publishing(v)'
    BY <2>1, <2>2, <2>3 DEF PublishInv, Frame
  <2>. QED
    BY <1>0, <1>18, <2>1, <2>4 DEF Frame
<1>20. CASE Recovers
  <2>1. \A v \in Worker : Publishing(v)' <=> Publishing(v)
    BY <1>20 DEF Recovers, Publishing
  <2>. QED
    BY <1>18, <1>20, <2>1 DEF Recovers, provider
<1>. QED
  BY <1>1, <1>2, <1>3, <1>4, <1>5, <1>6, <1>7, <1>8, <1>9, <1>10, <1>11, <1>12, <1>13, <1>14,
     <1>15, <1>16, <1>17, <1>19, <1>20, <1>21, <1>22
     DEF AnyEffect, Effect

\* What is published stays so.
LEMMA PublishedStays ==
    ASSUME Types, PublishInv, AnyEffect, draft.state = "published"
    PROVE  draft'.state = "published" /\ draft'.media = draft.media
<1>1. draft # NoDraft
  BY DEF NoDraft
<1>2. CASE draft' = draft
  BY <1>2
<1>3. CASE Updates({"authorized"}) \/ Updates({"staging", "until"}) \/ Updates({"container"})
  BY <1>3, ColumnsKept
<1>. QED
  BY <1>1, <1>2, <1>3
     DEF AnyEffect, Effect, Still, Rests, Accepted, Authorized, Takes, FindsPublished, GoesOn,
         Reuses, Stages, SavesMedium, Contains, SavesContainer, Posts, Completes, CleansUp, Clears, GivesUp,
         Presents, Prepared, Proceeds, Recovers, JanitorStep

\* At the start nobody has the draft.
LEMMA PublishStarts ==
    ASSUME Init
    PROVE  Types /\ PublishInv
<1>1. /\ now = 0 /\ draft = NoDraft /\ staged = {} /\ mediaCount = 0
      /\ pc = [w \in Worker |-> "idle"] /\ copy = [w \in Worker |-> NoCopy]
      /\ janitor = [pc |-> "idle", media |-> 0] /\ DOMAIN containers = {} /\ DOMAIN posts = {}
      /\ recovered = FALSE
  BY DEF Init, ApprovalInit
<1>2. "idle" \in Labels /\ "idle" \notin Claimed \cup Ending /\ "idle" # "complete"
  BY DEF Labels, Claimed, Ending
<1>3. Types
  BY <1>1, <1>2 DEF Types
<1>4. draft.state \notin {"publishing", "published"}
  BY <1>1 DEF NoDraft
<1>5. \A w \in Worker : ~Publishing(w) /\ ~SeesItPublished(w)
  BY <1>1, <1>2 DEF Publishing, SeesItPublished
<1>. QED
  BY <1>1, <1>2, <1>3, <1>4, <1>5 DEF PublishInv

\* Types and PublishInv are an inductive invariant.
LEMMA PublishInvariant == Spec => [](Types /\ PublishInv)
<1>1. Init => Types /\ PublishInv
  BY PublishStarts
<1>2. Types /\ PublishInv /\ [Next]_vars => (Types /\ PublishInv)'
  BY NextEffect, PublishKept
<1>. QED
  BY <1>1, <1>2, PTL DEF Spec

\* Claim gives the draft to one worker: two publish it at once only after Recover
\* took it from one of them.
THEOREM OnePublisher == Spec => []OnePublisherUnlessRecovered
<1>1. PublishInv => OnePublisherUnlessRecovered
  BY DEF PublishInv, OnePublisherUnlessRecovered
<1>. QED
  BY <1>1, PublishInvariant, PTL

\* Complete, Fail, Recover and a worker that comes late: a published draft has its
\* post and stays published.
THEOREM PublishedStaysPublished == Spec => PublishedIsFinal
<1>1. Types /\ PublishInv /\ [Next]_vars =>
         [(Known /\ draft.state = "published") =>
             /\ draft.media \in DOMAIN posts
             /\ draft'.state = "published" /\ draft'.media = draft.media]_vars
  <2>. SUFFICES ASSUME Types, PublishInv, [Next]_vars, draft.state = "published"
                PROVE  /\ draft.media \in DOMAIN posts
                       /\ draft'.state = "published" /\ draft'.media = draft.media
    OBVIOUS
  <2>1. draft.media \in DOMAIN posts
    BY DEF PublishInv
  <2>. QED
    BY <2>1, NextEffect, PublishedStays
<1>. QED
  BY <1>1, PublishInvariant, PTL DEF Spec, PublishedIsFinal

----------------------------------------------------------------------------
(***************************************************************************)
(* What is posted.                                                         *)
(***************************************************************************)
\* A use is not taken back, and its approval stays approved.
LEMMA GrantsStay ==
    ASSUME ApprovalInv, DecisionKept, NEW c, NEW at, NEW later,
           at = later \/ (at \in Nat /\ later \in Nat /\ at <= later),
           Grants(requests, uses, c, at)
    PROVE  Grants(requests', uses', c, later)
<1>1. PICK t \in DOMAIN uses : /\ requests[t].state = "approved" /\ requests[t].bind = Binding(c)
                               /\ uses[t] <= at
  BY DEF Grants
<1>2. t \in Token /\ uses[t] \in Nat
  BY DEF ApprovalInv, ApprovalTypes
<1>3. t \in DOMAIN uses' /\ uses'[t] = uses[t] /\ requests'[t] = requests[t]
  BY <1>1, <1>2 DEF DecisionKept
<1>4. uses[t] <= later
  BY <1>1, <1>2
<1>. QED
  BY <1>1, <1>3, <1>4 DEF Grants

\* What a step must not do, for the post to be what was approved.
LEMMA GrantStep ==
    ASSUME ApprovalInv, DecisionKept, Types, GrantInv, now' \in Nat, now' >= now,
           draft # NoDraft => draft' # NoDraft /\ draft'.content = draft.content,
           (draft' # NoDraft /\ draft'.authorized # Null) =>
              /\ draft # NoDraft
              /\ draft.authorized # Null \/ Granted(draft.content, now),
           draft'.state \in {"publishing", "published"} =>
              /\ draft # NoDraft
              /\ draft.state \in {"publishing", "published"} \/ Due,
           \A v \in Worker : pc'[v] \in Claimed => draft # NoDraft /\ (pc[v] \in Claimed \/ Due),
           \A v \in Worker : pc'[v] \in {"approved", "mark"} =>
              \/ pc[v] \in {"approved", "mark"} /\ copy'[v] = copy[v]
              \/ Grants(requests', uses', copy'[v].binding, now'),
           \A v \in Worker : (pc'[v] \in Claimed /\ copy'[v].container # 0) => Key \in DOMAIN containers',
           \A v \in Worker : pc'[v] \in Polling => copy'[v].container = Key,
           (draft' # NoDraft /\ draft'.container # 0) => Key \in DOMAIN containers',
           \A k \in DOMAIN containers' :
              /\ draft' # NoDraft /\ containers'[k].content = draft'.content
              /\ DOMAIN containers'[k] = {"content", "status"},
           \A k \in DOMAIN posts' :
              \/ k \in DOMAIN posts /\ posts'[k] = posts[k]
              \/ /\ draft # NoDraft /\ Due
                 /\ posts'[k].content = draft.content /\ posts'[k].at = now
    PROVE  GrantInv'
<1>0. now \in Nat /\ (draft # NoDraft => draft.content.publishAt \in Nat)
  BY TimesAssumption DEF Types, DraftOK
<1>1. \A c : Grants(requests, uses, c, now) => Grants(requests', uses', c, now')
  BY <1>0, GrantsStay
<1>2. (draft # NoDraft /\ Due) => Due'
  <2>1. (draft # NoDraft /\ Due) => now' >= draft.content.publishAt
    BY <1>0 DEF Due
  <2>. QED
    BY <1>1, <2>1 DEF Due, Granted
<1>3. \A w \in Worker : pc'[w] \in {"approved", "mark"} => Granted(copy[w].binding, now)'
  BY <1>1 DEF GrantInv, Granted
<1>4. (draft' # NoDraft /\ draft'.authorized # Null) => Granted(draft.content, now)'
  BY <1>1 DEF GrantInv, Granted
<1>5. draft'.state \in {"publishing", "published"} => Due'
  BY <1>2 DEF GrantInv
<1>6. \A w \in Worker : pc'[w] \in Claimed => Due'
  BY <1>2 DEF GrantInv
<1>7. ASSUME NEW k \in DOMAIN posts'
      PROVE  /\ draft' # NoDraft /\ posts'[k].content = draft'.content
             /\ posts'[k].at >= draft'.content.publishAt
             /\ Granted(draft.content, posts[k].at)'
  <2>1. CASE k \in DOMAIN posts /\ posts'[k] = posts[k]
    <3>1. /\ draft # NoDraft /\ posts[k].content = draft.content
          /\ posts[k].at >= draft.content.publishAt
          /\ Grants(requests, uses, draft.content, posts[k].at)
      BY <2>1 DEF GrantInv, Granted
    <3>2. Grants(requests', uses', draft.content, posts[k].at)
      BY <3>1, GrantsStay
    <3>. QED
      BY <2>1, <3>1, <3>2 DEF Granted
  <2>2. CASE /\ draft # NoDraft /\ Due
             /\ posts'[k].content = draft.content /\ posts'[k].at = now
    <3>1. Grants(requests, uses, draft.content, now) /\ now >= draft.content.publishAt
      BY <2>2 DEF Due, Granted
    <3>2. Grants(requests', uses', draft.content, now)
      BY <3>1, GrantsStay
    <3>. QED
      BY <2>2, <3>1, <3>2 DEF Granted
  <2>. QED
    BY <2>1, <2>2
<1>. QED
  BY <1>3, <1>4, <1>5, <1>6, <1>7 DEF GrantInv

\* Whatever the effect of a step, GrantInv holds after it.
LEMMA GrantKept ==
    ASSUME ApprovalInv, ApprovalInv', DecisionKept, Types, PublishInv, GrantInv, AnyEffect,
           now' \in Nat, now' >= now
    PROVE  GrantInv'
<1>0. /\ draft = NoDraft => draft.state \notin {"publishing", "published"}
      /\ \A x \in {"idle", "resume", "claim", "approved", "mark"} \cup Ending :
            x \notin Claimed /\ x \notin Polling
      /\ \A x \in {"idle", "resume", "claim"} \cup Claimed \cup Ending : x \notin {"approved", "mark"}
      /\ Polling \subseteq Claimed
  BY DEF NoDraft, Claimed, Ending, Polling
<1>1. \A v \in Worker : pc[v] \in Claimed => draft # NoDraft /\ Due
  BY DEF PublishInv, GrantInv
<1>. DEFINE Fresh(v) == \/ pc'[v] = pc[v] /\ copy'[v] = copy[v]
                        \/ pc'[v] \in {"idle", "resume", "claim"} \cup Ending
<1>2. ASSUME draft # NoDraft => draft' # NoDraft /\ draft'.content = draft.content,
             (draft' # NoDraft /\ draft'.authorized # Null) =>
                /\ draft # NoDraft
                /\ draft.authorized # Null \/ Granted(draft.content, now),
             draft'.state \in {"publishing", "published"} =>
                draft # NoDraft /\ draft.state \in {"publishing", "published"},
             (draft' # NoDraft /\ draft'.container # 0) => draft # NoDraft /\ draft'.container = draft.container,
             containers' = containers, posts' = posts,
             \A v \in Worker : Fresh(v)
      PROVE  GrantInv'
  <2>1. \A v \in Worker : pc'[v] \in Claimed => pc[v] \in Claimed /\ copy'[v] = copy[v] /\ pc'[v] = pc[v]
    BY <1>0, <1>2
  <2>2. \A v \in Worker : pc'[v] \in {"approved", "mark"} => pc'[v] = pc[v] /\ copy'[v] = copy[v]
    BY <1>0, <1>2
  <2>3. \A k \in DOMAIN containers' :
           /\ draft' # NoDraft /\ containers'[k].content = draft'.content
           /\ DOMAIN containers'[k] = {"content", "status"}
    BY <1>2 DEF GrantInv
  <2>4. (draft' # NoDraft /\ draft'.container # 0) => Key \in DOMAIN containers'
    BY <1>2 DEF GrantInv
  <2>5. \A v \in Worker : (pc'[v] \in Claimed /\ copy'[v].container # 0) => Key \in DOMAIN containers'
    BY <1>2, <2>1 DEF GrantInv
  <2>6. \A v \in Worker : pc'[v] \in Polling => copy'[v].container = Key
    BY <1>0, <2>1 DEF GrantInv
  <2>. QED
    BY <1>1, <1>2, <2>1, <2>2, <2>3, <2>4, <2>5, <2>6, GrantStep
<1>. HIDE DEF Fresh
<1>3. CASE Still
  BY <1>0, <1>2, <1>3 DEF Still, provider, Fresh
<1>4. ASSUME NEW w \in Worker, Rests(w) \/ CleansUp(w) PROVE GrantInv'
  <2>1. \A v \in Worker : Fresh(v)
    BY <1>4 DEF Rests, CleansUp, Frame, Fresh, Ending
  <2>2. draft' = draft /\ containers' = containers /\ posts' = posts
    BY <1>4 DEF Rests, CleansUp, provider
  <2>. QED
    BY <1>0, <1>2, <2>1, <2>2
<1>5. ASSUME NEW w \in Worker, Authorized(w) PROVE GrantInv'
  <2>1. \A v \in Worker : Fresh(v)
    BY <1>5 DEF Authorized, Frame, Fresh
  <2>2. /\ draft # NoDraft /\ draft' # NoDraft /\ draft'.content = draft.content
        /\ draft'.state = draft.state /\ draft'.container = draft.container
    BY <1>5, ColumnsKept DEF Authorized
  <2>3. Granted(draft.content, now)
    BY <1>5 DEF Authorized, GrantInv, PublishInv
  <2>4. containers' = containers /\ posts' = posts
    BY <1>5 DEF Authorized, provider
  <2>. QED
    BY <1>2, <2>1, <2>2, <2>3, <2>4
<1>6. ASSUME NEW w \in Worker, Completes(w) PROVE GrantInv'
  <2>1. \A v \in Worker : Fresh(v)
    BY <1>6 DEF Completes, Frame, Fresh, Ending
  <2>2. /\ draft # NoDraft /\ draft' # NoDraft /\ draft'.content = draft.content
        /\ draft'.authorized = draft.authorized /\ draft'.container = draft.container
        /\ draft.state = "publishing" /\ containers' = containers /\ posts' = posts
    BY <1>6, ColumnsKept DEF Completes, provider
  <2>. QED
    BY <1>2, <2>1, <2>2
<1>7. ASSUME NEW w \in Worker, Clears(w) \/ GivesUp(w) PROVE GrantInv'
  <2>1. \A v \in Worker : Fresh(v)
    BY <1>7 DEF Clears, GivesUp, Frame, Fresh
  <2>2. /\ draft # NoDraft /\ draft' # NoDraft /\ draft'.content = draft.content
        /\ draft'.authorized = draft.authorized /\ draft'.container = draft.container
        /\ draft'.state = draft.state \/ draft'.state = "failed"
        /\ containers' = containers /\ posts' = posts
    BY <1>7, ColumnsKept DEF Clears, GivesUp, provider
  <2>. QED
    BY <1>2, <2>1, <2>2
<1>8. CASE Recovers
  <2>1. \A v \in Worker : Fresh(v)
    BY <1>8 DEF Recovers, Fresh
  <2>2. /\ draft # NoDraft /\ draft' # NoDraft /\ draft'.content = draft.content
        /\ draft'.authorized = draft.authorized /\ draft'.container = draft.container
        /\ draft'.state = "failed" /\ containers' = containers /\ posts' = posts
    BY <1>8, ColumnsKept DEF Recovers, provider
  <2>. QED
    BY <1>2, <2>1, <2>2
<1>9. CASE JanitorStep
  <2>1. \A v \in Worker : Fresh(v)
    BY <1>9 DEF JanitorStep, Fresh
  <2>2. \/ draft' = draft
        \/ /\ draft # NoDraft /\ draft' # NoDraft /\ draft'.content = draft.content
           /\ draft'.authorized = draft.authorized /\ draft'.container = draft.container
           /\ draft'.state = draft.state
    BY <1>9, ColumnsKept DEF JanitorStep
  <2>3. containers' = containers /\ posts' = posts
    BY <1>9 DEF JanitorStep, provider
  <2>. QED
    BY <1>0, <1>2, <2>1, <2>2, <2>3
<1>10. CASE Prepared
  <2>1. /\ draft = NoDraft /\ draft'.state = "prepared" /\ draft'.authorized = Null
        /\ draft'.container = 0 /\ containers' = containers /\ posts' = posts
    BY <1>10 DEF Prepared, NewDraft, provider
  <2>2. \A v \in Worker : Fresh(v)
    BY <1>10 DEF Prepared, Fresh
  <2>. QED
    BY <1>2, <2>1, <2>2
<1>11. ASSUME NEW w \in Worker, Presents(w) PROVE GrantInv'
  <2>1. PICK t, c : AuthorizeReceipt(t, Binding(c)) /\ copy'[w].binding = c
    BY <1>11 DEF Presents
  <2>2. /\ pc'[w] = "approved" /\ UNCHANGED <<now, draft, containers, posts>>
        /\ \A v \in Worker : v # w => pc'[v] = pc[v] /\ copy'[v] = copy[v]
    BY <1>11 DEF Presents, provider
  <2>3. Grants(requests', uses', copy'[w].binding, now')
    <3>1. /\ t \in DOMAIN uses' /\ uses'[t] = now /\ requests' = requests
          /\ requests[t].state = "approved" /\ requests[t].bind = Binding(c)
      BY <2>1, <2>2, AuthorizeKeeps
    <3>2. uses'[t] <= now'
      BY <2>2, <3>1 DEF Types
    <3>. QED
      BY <2>1, <3>1, <3>2 DEF Grants
  <2>4. \A v \in Worker : pc'[v] \in Claimed => pc[v] \in Claimed /\ copy'[v] = copy[v] /\ pc'[v] = pc[v]
    BY <1>0, <2>2
  <2>5. \A v \in Worker : (pc'[v] \in Claimed /\ copy'[v].container # 0) => Key \in DOMAIN containers'
    BY <2>2, <2>4 DEF GrantInv
  <2>6. \A v \in Worker : pc'[v] \in Polling => copy'[v].container = Key
    BY <1>0, <2>4 DEF GrantInv
  <2>7. /\ (draft' # NoDraft /\ draft'.container # 0) => Key \in DOMAIN containers'
        /\ \A k \in DOMAIN containers' :
              /\ draft' # NoDraft /\ containers'[k].content = draft'.content
              /\ DOMAIN containers'[k] = {"content", "status"}
    BY <2>2 DEF GrantInv
  <2>. QED
    BY <1>0, <1>1, <2>2, <2>3, <2>4, <2>5, <2>6, <2>7, GrantStep
<1>12. ASSUME NEW w \in Worker, draft # NoDraft, Due, pc'[w] \in Claimed,
              \A v \in Worker : v # w => pc'[v] = pc[v] /\ copy'[v] = copy[v],
              draft' # NoDraft, draft'.content = draft.content,
              draft'.authorized = draft.authorized,
              \/ draft'.container = draft.container
              \/ draft'.container = copy[w].container /\ pc[w] \in Claimed,
              copy'[w].container # 0 => Key \in DOMAIN containers',
              pc'[w] \in Polling => copy'[w].container = Key,
              DOMAIN containers \subseteq DOMAIN containers',
              \A k \in DOMAIN containers' :
                 /\ containers'[k].content = draft'.content
                 /\ DOMAIN containers'[k] = {"content", "status"},
              \A k \in DOMAIN posts' :
                 \/ k \in DOMAIN posts /\ posts'[k] = posts[k]
                 \/ posts'[k].content = draft.content /\ posts'[k].at = now
       PROVE  GrantInv'
  <2>1. \A v \in Worker : pc'[v] \in {"approved", "mark"} => pc'[v] = pc[v] /\ copy'[v] = copy[v]
    BY <1>0, <1>12
  <2>2. \A v \in Worker : (pc'[v] \in Claimed /\ copy'[v].container # 0) => Key \in DOMAIN containers'
    BY <1>12 DEF GrantInv
  <2>3. \A v \in Worker : pc'[v] \in Polling => copy'[v].container = Key
    BY <1>12 DEF GrantInv
  <2>4. (draft' # NoDraft /\ draft'.container # 0) => Key \in DOMAIN containers'
    BY <1>12 DEF GrantInv
  <2>. QED
    BY <1>12, <2>1, <2>2, <2>3, <2>4, GrantStep
<1>13. \A k \in DOMAIN containers : containers[k].content = draft.content
                                    /\ DOMAIN containers[k] = {"content", "status"}
  BY DEF GrantInv
<1>14. ASSUME NEW w \in Worker, Takes(w) PROVE GrantInv'
  <2>1. /\ draft # NoDraft /\ draft' # NoDraft /\ draft'.content = draft.content
        /\ draft'.authorized = draft.authorized /\ draft'.container = draft.container
        /\ draft.authorized # Null /\ now >= draft.content.publishAt
    BY <1>14, ColumnsKept DEF Takes
  <2>2. Due
    BY <2>1 DEF Due, GrantInv
  <2>3. /\ pc'[w] \in Claimed /\ pc'[w] \notin Polling /\ copy'[w].container = draft'.container
    BY <1>14 DEF Takes, Claimed, Polling, Copied
  <2>4. containers' = containers /\ posts' = posts /\ Frame(w)
    BY <1>14 DEF Takes, provider
  <2>5. copy'[w].container # 0 => Key \in DOMAIN containers'
    BY <2>1, <2>3, <2>4 DEF GrantInv
  <2>6. /\ \A v \in Worker : v # w => pc'[v] = pc[v] /\ copy'[v] = copy[v]
        /\ DOMAIN containers \subseteq DOMAIN containers'
        /\ \A k \in DOMAIN containers' :
              /\ containers'[k].content = draft'.content
              /\ DOMAIN containers'[k] = {"content", "status"}
        /\ \A k \in DOMAIN posts' :
              \/ k \in DOMAIN posts /\ posts'[k] = posts[k]
              \/ posts'[k].content = draft.content /\ posts'[k].at = now
        /\ pc'[w] \in Polling => copy'[w].container = Key
    BY <1>13, <2>1, <2>3, <2>4 DEF Frame
  <2>. QED
    BY <1>12, <2>1, <2>2, <2>3, <2>5, <2>6
<1>15. ASSUME NEW w \in Worker, FindsPublished(w) PROVE GrantInv'
  <2>1. draft' = draft /\ draft # NoDraft /\ Due
    BY <1>0, <1>15 DEF FindsPublished, GrantInv
  <2>2. /\ pc'[w] \in Claimed /\ pc'[w] \notin Polling /\ copy'[w].container = draft.container
    BY <1>15 DEF FindsPublished, Claimed, Polling, Copied
  <2>3. containers' = containers /\ posts' = posts /\ Frame(w)
    BY <1>15 DEF FindsPublished, provider
  <2>4. copy'[w].container # 0 => Key \in DOMAIN containers'
    BY <2>1, <2>2, <2>3 DEF GrantInv
  <2>5. /\ \A v \in Worker : v # w => pc'[v] = pc[v] /\ copy'[v] = copy[v]
        /\ DOMAIN containers \subseteq DOMAIN containers'
        /\ \A k \in DOMAIN containers' :
              /\ containers'[k].content = draft'.content
              /\ DOMAIN containers'[k] = {"content", "status"}
        /\ \A k \in DOMAIN posts' :
              \/ k \in DOMAIN posts /\ posts'[k] = posts[k]
              \/ posts'[k].content = draft.content /\ posts'[k].at = now
        /\ pc'[w] \in Polling => copy'[w].container = Key
        /\ draft'.container = draft.container /\ draft' # NoDraft
        /\ draft'.content = draft.content /\ draft'.authorized = draft.authorized
    BY <1>13, <2>1, <2>2, <2>3 DEF Frame
  <2>. QED
    BY <1>12, <2>1, <2>2, <2>4, <2>5
<1>21. ASSUME NEW w \in Worker, Accepted(w) PROVE GrantInv'
  <2>1. /\ UNCHANGED <<now, requests, uses, draft, containers, posts>>
        /\ pc[w] = "approved" /\ pc'[w] = "mark" /\ copy'[w] = copy[w]
        /\ \A v \in Worker : v # w => pc'[v] = pc[v] /\ copy'[v] = copy[v]
    BY <1>21 DEF Accepted, Frame, provider
  <2>2. pc'[w] \notin Claimed /\ pc'[w] \notin Polling
    BY <1>0, <2>1
  <2>. QED
    BY <1>0, <1>1, <2>1, <2>2, GrantStep DEF GrantInv
<1>16. ASSUME NEW w \in Worker, GoesOn(w) \/ Reuses(w) \/ Stages(w) PROVE GrantInv'
  <2>1. /\ Frame(w) /\ pc[w] \in Claimed /\ pc'[w] \in Claimed
        /\ pc'[w] \in Polling => pc[w] \in Polling \/ copy[w].container # 0
    BY <1>16 DEF GoesOn, Reuses, Stages, Claimed, Polling
  <2>2. copy'[w].container = copy[w].container
    BY <1>16, FieldsKept DEF GoesOn, Reuses, Stages
  <2>3. draft' = draft /\ containers' = containers /\ posts' = posts
    BY <1>16 DEF GoesOn, Reuses, Stages, provider
  <2>4. copy[w].container \in {0, Key} /\ (copy[w].container # 0 => Key \in DOMAIN containers)
    BY <2>1 DEF GrantInv, Types, CopyOK
  <2>5. pc'[w] \in Polling => copy'[w].container = Key
    BY <2>1, <2>2, <2>4 DEF GrantInv
  <2>. QED
    BY <1>1, <1>12, <1>13, <2>1, <2>2, <2>3, <2>4, <2>5 DEF Frame
<1>17. ASSUME NEW w \in Worker, SavesMedium(w) \/ SavesContainer(w) PROVE GrantInv'
  <2>1. /\ Frame(w) /\ pc[w] \in Claimed /\ pc'[w] \in Claimed /\ copy'[w] = copy[w]
        /\ pc'[w] \in Polling => pc[w] \in Polling
    BY <1>17 DEF SavesMedium, SavesContainer, Claimed, Polling
  <2>2. /\ draft # NoDraft /\ draft' # NoDraft /\ draft'.content = draft.content
        /\ draft'.authorized = draft.authorized
        /\ draft'.container = draft.container \/ draft'.container = copy[w].container
    BY <1>17, ColumnsKept DEF SavesMedium, SavesContainer
  <2>3. containers' = containers /\ posts' = posts
    BY <1>17 DEF SavesMedium, SavesContainer, provider
  <2>4. /\ copy[w].container # 0 => Key \in DOMAIN containers
        /\ pc[w] \in Polling => copy[w].container = Key
    BY <2>1 DEF GrantInv
  <2>. QED
    BY <1>1, <1>12, <1>13, <2>1, <2>2, <2>3, <2>4 DEF Frame
<1>18. ASSUME NEW w \in Worker, Contains(w) PROVE GrantInv'
  <2>1. /\ Frame(w) /\ pc[w] \in Claimed /\ pc'[w] \in Claimed /\ draft' = draft /\ posts' = posts
        /\ pc'[w] \in Polling => copy'[w].container = Key
    BY <1>18 DEF Contains, Claimed, Polling
  <2>2. copy[w].content = draft.content /\ draft # NoDraft
    BY <2>1 DEF PublishInv
  <2>3. /\ Key \in DOMAIN containers' /\ DOMAIN containers \subseteq DOMAIN containers'
        /\ \A k \in DOMAIN containers' :
              \/ k \in DOMAIN containers /\ containers'[k] = containers[k]
              \/ /\ DOMAIN containers'[k] = {"content", "status"}
                 /\ containers'[k].content = copy[w].content
    BY <1>18 DEF Contains
  <2>4. \A k \in DOMAIN containers' :
           /\ containers'[k].content = draft'.content
           /\ DOMAIN containers'[k] = {"content", "status"}
    BY <1>13, <2>1, <2>2, <2>3
  <2>. QED
    BY <1>1, <1>12, <2>1, <2>2, <2>3, <2>4 DEF Frame
<1>19. ASSUME NEW w \in Worker, Posts(w) PROVE GrantInv'
  <2>1. /\ Frame(w) /\ pc[w] \in Polling /\ pc'[w] \in Claimed /\ pc'[w] \notin Polling
        /\ copy'[w] = copy[w] /\ draft' = draft /\ containers' = containers
    BY <1>19 DEF Posts, Claimed, Polling
  <2>2. copy[w].container = Key /\ (copy[w].container # 0 => Key \in DOMAIN containers)
    BY <1>0, <2>1 DEF GrantInv
  <2>3. containers[copy[w].container].content = draft.content
    BY <1>13, <2>2 DEF Key
  <2>4. \A k \in DOMAIN posts' :
           \/ k \in DOMAIN posts /\ posts'[k] = posts[k]
           \/ posts'[k].content = draft.content /\ posts'[k].at = now
    BY <1>19, <2>3 DEF Posts
  <2>. QED
    BY <1>0, <1>1, <1>12, <1>13, <2>1, <2>2, <2>4 DEF Frame
<1>20. CASE Proceeds
  <2>1. UNCHANGED <<now, requests, uses, draft, pc, copy, posts>> /\ DOMAIN containers' = DOMAIN containers
    BY <1>20 DEF Proceeds
  <2>2. \A k \in DOMAIN containers' :
           /\ draft' # NoDraft /\ containers'[k].content = draft'.content
           /\ DOMAIN containers'[k] = {"content", "status"}
    BY <1>20 DEF Proceeds, GrantInv
  <2>. QED
    BY <1>0, <1>1, <2>1, <2>2, GrantStep DEF GrantInv
<1>. QED
  BY <1>3, <1>4, <1>5, <1>6, <1>7, <1>8, <1>9, <1>10, <1>11, <1>14, <1>15, <1>16, <1>17, <1>18,
     <1>19, <1>20, <1>21
     DEF AnyEffect, Effect

\* At the start there is neither a container nor a post.
LEMMA GrantStarts ==
    ASSUME Init
    PROVE  GrantInv
<1>1. /\ draft = NoDraft /\ pc = [w \in Worker |-> "idle"] /\ containers = <<>> /\ posts = <<>>
  BY DEF Init
<1>2. draft.state \notin {"publishing", "published"}
  BY <1>1 DEF NoDraft
<1>3. \A w \in Worker : pc[w] = "idle" /\ pc[w] \notin Claimed /\ pc[w] \notin Polling
  BY <1>1 DEF Claimed, Polling
<1>4. DOMAIN containers = {} /\ DOMAIN posts = {}
  BY <1>1
<1>. QED
  BY <1>1, <1>2, <1>3, <1>4 DEF GrantInv

\* GrantInv is inductive relative to the approval tables, Types and PublishInv.
LEMMA GrantInvariant == Spec => [](ApprovalInv /\ Types /\ PublishInv /\ GrantInv)
<1>1. Init => ApprovalInv /\ Types /\ PublishInv /\ GrantInv
  BY ApprovalStarts, PublishStarts, GrantStarts DEF Init
<1>2. ASSUME ApprovalInv, Types, PublishInv, GrantInv, [Next]_vars
      PROVE  ApprovalInv' /\ Types' /\ PublishInv' /\ GrantInv'
  <2>1. ApprovalInv' /\ DecisionKept
    BY <1>2, NextApprovals, ApprovalKept
  <2>2. Types' /\ AnyEffect /\ now' \in Nat /\ now' >= now
    BY <1>2, NextEffect
  <2>3. PublishInv'
    BY <1>2, <2>2, PublishKept
  <2>. QED
    BY <1>2, <2>1, <2>2, <2>3, GrantKept
<1>. QED
  BY <1>1, <1>2, PTL DEF Spec

\* PublishContainer, however many workers reach it and however often Claim, Recover
\* and failures repeat it, leaves at most one post, of what the owner approved, not
\* before its time.
THEOREM OnePostAsApproved == Spec => []OneApprovedPost
<1>1. ApprovalInv /\ Types /\ PublishInv /\ GrantInv => OneApprovedPost
  <2>. SUFFICES ASSUME Types, GrantInv PROVE OneApprovedPost
    OBVIOUS
  <2>1. DOMAIN posts = {} \/ DOMAIN posts = {Key}
    <3>1. DOMAIN posts \subseteq {Key}
      BY DEF Types
    <3>2. \A S : S \subseteq {Key} => S = {} \/ S = {Key}
      OBVIOUS
    <3>. QED
      BY <3>1, <3>2
  <2>2. Cardinality(DOMAIN posts) = 0 \/ Cardinality(DOMAIN posts) = 1
    BY <2>1, FS_EmptySet, FS_Singleton
  <2>3. Cardinality(DOMAIN posts) <= 1
    BY <2>2
  <2>4. \A k \in DOMAIN posts :
           /\ posts[k].at >= posts[k].content.publishAt
           /\ Grants(requests, uses, posts[k].content, posts[k].at)
    BY DEF GrantInv, Granted
  <2>. QED
    BY <2>3, <2>4 DEF OneApprovedPost, Grants
<1>. QED
  BY <1>1, GrantInvariant, PTL

----------------------------------------------------------------------------
(***************************************************************************)
(* Which media are kept.                                                   *)
(***************************************************************************)
\* A step after which what is needed was needed before, or is there.
LEMMA MediaStep ==
    ASSUME MediaInv, ~recovered' => ~recovered,
           ~recovered' => \A m : Kept(m, staged, janitor) => Kept(m, staged', janitor'),
           ~recovered' => (DraftNeedsItsMedium' =>
              \/ DraftNeedsItsMedium /\ draft'.staging = draft.staging
              \/ Kept(draft'.staging, staged', janitor')),
           ~recovered' => \A v \in Worker : NeedsItsMedium(v)' =>
              \/ NeedsItsMedium(v) /\ copy'[v].staging = copy[v].staging
              \/ Kept(copy'[v].staging, staged', janitor')
    PROVE  MediaInv'
<1>. SUFFICES ASSUME ~recovered'
              PROVE  /\ DraftNeedsItsMedium' => Kept(draft'.staging, staged', janitor')
                     /\ \A v \in Worker : NeedsItsMedium(v)' => Kept(copy'[v].staging, staged', janitor')
  BY DEF MediaInv, Safe
<1>1. /\ DraftNeedsItsMedium => Kept(draft.staging, staged, janitor)
      /\ \A v \in Worker : NeedsItsMedium(v) => Kept(copy[v].staging, staged, janitor)
  BY DEF MediaInv, Safe
<1>. QED
  BY <1>1

\* Who needs a medium is publishing.
LEMMA NeedingIsPublishing ==
    ASSUME PublishInv, ~recovered, NEW w \in Worker, NeedsItsMedium(w)
    PROVE  draft.state = "publishing"
<1>1. Publishing(w)
  BY DEF NeedsItsMedium, Publishing
<1>. QED
  BY <1>1 DEF PublishInv

\* Whatever the effect of a step, MediaInv holds after it.
LEMMA MediaKept ==
    ASSUME Types, PublishInv, MediaInv, AnyEffect, now' \in Nat, now' >= now
    PROVE  MediaInv'
<1>. DEFINE Other(v) == pc'[v] \notin {"stage", "saveStaging", "container"}
            Same(v) == pc'[v] = pc[v] /\ copy'[v] = copy[v]
<1>1. ASSUME NEW v \in Worker, Other(v) \/ Same(v), NeedsItsMedium(v)'
      PROVE  NeedsItsMedium(v) /\ copy'[v].staging = copy[v].staging
  <2>1. Same(v)
    BY <1>1 DEF NeedsItsMedium
  <2>2. pc[v] \in {"stage", "saveStaging", "container"} => copy[v].until \in Nat
    BY DEF Types, CopyOK, Claimed
  <2>3. \A u \in Nat : now' + TicksPerSecond <= u => now + TicksPerSecond <= u
    BY TicksAssumption DEF Types
  <2>. HIDE DEF Other
  <2>. QED
    BY <1>1, <2>1, <2>2, <2>3 DEF NeedsItsMedium
<1>2. ASSUME draft' = draft, DraftNeedsItsMedium'
      PROVE  DraftNeedsItsMedium /\ draft'.staging = draft.staging
  <2>1. draft # NoDraft => draft.until \in Nat
    BY DEF Types, DraftOK
  <2>2. \A u \in Nat : now' + TicksPerSecond <= u => now + TicksPerSecond <= u
    BY TicksAssumption DEF Types
  <2>. QED
    BY <1>2, <2>1, <2>2 DEF DraftNeedsItsMedium
<1>3. ASSUME NEW columns, Updates(columns), now' = now, "staging" \notin columns, "until" \notin columns,
             draft.state # "published", DraftNeedsItsMedium'
      PROVE  DraftNeedsItsMedium /\ draft'.staging = draft.staging
  BY <1>3, ColumnsKept DEF DraftNeedsItsMedium
<1>4. ASSUME Updates({"staging", "until"}), draft'.staging = 0
      PROVE  ~DraftNeedsItsMedium'
  BY <1>4 DEF DraftNeedsItsMedium
<1>. HIDE DEF Other, Same
<1>5. ASSUME UNCHANGED <<staged, janitor, recovered>>,
             DraftNeedsItsMedium' => DraftNeedsItsMedium /\ draft'.staging = draft.staging,
             \A v \in Worker : Other(v) \/ Same(v)
      PROVE  MediaInv'
  BY <1>1, <1>5, MediaStep
<1>6. CASE Still
  <2>1. \A v \in Worker : Same(v)
    BY <1>6 DEF Still, Same
  <2>2. UNCHANGED <<staged, janitor, recovered, draft>>
    BY <1>6 DEF Still, stager
  <2>. QED
    BY <1>2, <1>5, <2>1, <2>2
<1>7. ASSUME NEW w \in Worker, \/ Rests(w) \/ Accepted(w) \/ Presents(w)
                               \/ Contains(w) \/ Posts(w)
      PROVE  MediaInv'
  <2>1. \A v \in Worker : Other(v) \/ Same(v)
    BY <1>7 DEF Rests, Accepted, Presents, Contains, Posts, Frame, Other, Same
  <2>2. UNCHANGED <<staged, janitor, recovered, draft>>
    BY <1>7 DEF Rests, Accepted, Presents, Contains, Posts, Frame, stager
  <2>. QED
    BY <1>2, <1>5, <2>1, <2>2
<1>8. ASSUME NEW w \in Worker, Authorized(w) \/ SavesContainer(w) PROVE MediaInv'
  <2>1. \A v \in Worker : Other(v) \/ Same(v)
    BY <1>8 DEF Authorized, SavesContainer, Frame, Other, Same
  <2>2. /\ UNCHANGED <<staged, janitor, recovered, now>>
        /\ Updates({"authorized"}) \/ Updates({"container"})
    BY <1>8 DEF Authorized, SavesContainer, Frame, stager
  <2>3. DraftNeedsItsMedium' => DraftNeedsItsMedium /\ draft'.staging = draft.staging
    BY <2>2, ColumnsKept DEF DraftNeedsItsMedium
  <2>. QED
    BY <1>5, <2>1, <2>2, <2>3
<1>9. ASSUME NEW w \in Worker, Completes(w) \/ GivesUp(w) PROVE MediaInv'
  <2>1. \A v \in Worker : Other(v) \/ Same(v)
    BY <1>9 DEF Completes, GivesUp, Frame, Other, Same
  <2>2. /\ UNCHANGED <<staged, janitor, recovered, now>> /\ draft.state = "publishing"
        /\ Updates({"state", "media"}) \/ Updates({"state", "available"})
    BY <1>9 DEF Completes, GivesUp, Frame, stager
  <2>3. DraftNeedsItsMedium' => DraftNeedsItsMedium /\ draft'.staging = draft.staging
    BY <1>3, <2>2
  <2>. QED
    BY <1>5, <2>1, <2>2, <2>3
<1>10. ASSUME NEW w \in Worker, Clears(w) PROVE MediaInv'
  <2>1. \A v \in Worker : Other(v) \/ Same(v)
    BY <1>10 DEF Clears, Frame, Other, Same
  <2>2. UNCHANGED <<staged, janitor, recovered>> /\ ~DraftNeedsItsMedium'
    BY <1>4, <1>10 DEF Clears, Frame, stager
  <2>. QED
    BY <1>5, <2>1, <2>2
<1>11. CASE Prepared
  <2>1. \A v \in Worker : Same(v)
    BY <1>11 DEF Prepared, Same
  <2>2. UNCHANGED <<staged, janitor, recovered>> /\ draft'.staging = 0
    BY <1>11 DEF Prepared, NewDraft, stager
  <2>. QED
    BY <1>5, <2>1, <2>2 DEF DraftNeedsItsMedium
<1>12. CASE Proceeds
  <2>1. \A v \in Worker : Same(v)
    BY <1>12 DEF Proceeds, Same
  <2>2. UNCHANGED <<staged, janitor, recovered, draft>>
    BY <1>12 DEF Proceeds, stager
  <2>. QED
    BY <1>2, <1>5, <2>1, <2>2
<1>13. CASE Recovers
  <2>1. \A v \in Worker : Same(v)
    BY <1>13 DEF Recovers, Same
  <2>2. /\ UNCHANGED <<staged, janitor, now>> /\ draft.state = "publishing"
        /\ Updates({"state", "available"})
    BY <1>13 DEF Recovers, stager
  <2>3. DraftNeedsItsMedium' => DraftNeedsItsMedium /\ draft'.staging = draft.staging
    BY <1>3, <2>2
  <2>4. CASE recovered' = recovered
    BY <1>5, <2>1, <2>2, <2>3, <2>4
  <2>5. CASE recovered' = TRUE
    BY <2>5 DEF MediaInv
  <2>. QED
    BY <1>13, <2>4, <2>5 DEF Recovers
<1>14. ASSUME NEW w \in Worker, Takes(w) PROVE MediaInv'
  <2>1. /\ UNCHANGED <<staged, janitor, recovered, now>> /\ draft.state # "published"
        /\ Updates({"state", "attempts"}) /\ pc'[w] = "stage" /\ copy'[w] = Copied(draft')
        /\ draft'.state = "publishing"
        /\ \A v \in Worker : v # w => Same(v)
    BY <1>14 DEF Takes, Frame, Same, stager
  <2>2. /\ draft' # NoDraft /\ draft # NoDraft /\ draft'.staging = draft.staging
        /\ draft'.until = draft.until
    BY <2>1, ColumnsKept
  <2>3. copy'[w].staging = draft.staging /\ copy'[w].until = draft.until
    BY <2>1, <2>2 DEF Copied
  <2>4. DraftNeedsItsMedium' => DraftNeedsItsMedium /\ draft'.staging = draft.staging
    BY <1>3, <2>1
  <2>5. NeedsItsMedium(w)' => DraftNeedsItsMedium
    BY <2>1, <2>2, <2>3 DEF NeedsItsMedium, DraftNeedsItsMedium
  <2>6. (~recovered /\ NeedsItsMedium(w)') => Kept(copy'[w].staging, staged', janitor')
    BY <2>1, <2>3, <2>5 DEF MediaInv, Safe
  <2>. QED
    BY <1>1, <2>1, <2>4, <2>6, MediaStep
<1>15. ASSUME NEW w \in Worker, FindsPublished(w) PROVE MediaInv'
  <2>1. /\ UNCHANGED <<staged, janitor, recovered, draft>>
        /\ \A v \in Worker : v # w => Same(v)
    BY <1>15 DEF FindsPublished, Frame, Same, stager
  <2>2. ~NeedsItsMedium(w)'
    <3>1. copy'[w].state = "published"
      BY <1>15 DEF FindsPublished, Copied
    <3>. QED
      BY <3>1 DEF NeedsItsMedium
  <2>. QED
    BY <1>1, <1>2, <2>1, <2>2, MediaStep
<1>16. ASSUME NEW w \in Worker, GoesOn(w) PROVE MediaInv'
  <2>1. /\ UNCHANGED <<staged, janitor, recovered, draft>>
        /\ \A v \in Worker : v # w => Same(v)
    BY <1>16 DEF GoesOn, Frame, Same, stager
  <2>2. copy'[w].state = copy[w].state /\ copy'[w].staging = copy[w].staging
    BY <1>16, FieldsKept DEF GoesOn
  <2>3. NeedsItsMedium(w)' => NeedsItsMedium(w)
    BY <1>16, <2>2 DEF NeedsItsMedium, GoesOn
  <2>. QED
    BY <1>1, <1>2, <2>1, <2>2, <2>3, MediaStep
<1>21. ASSUME NEW w \in Worker, Reuses(w) PROVE MediaInv'
  <2>1. /\ UNCHANGED <<staged, janitor, recovered, draft>>
        /\ \A v \in Worker : v # w => Same(v)
    BY <1>21 DEF Reuses, Frame, Same, stager
  <2>2. /\ copy'[w].state = copy[w].state /\ copy'[w].staging = copy[w].staging
        /\ copy'[w].until = copy[w].until /\ copy'[w].seen = now
    BY <1>21, FieldsKept DEF Reuses
  <2>3. NeedsItsMedium(w)' => NeedsItsMedium(w)
    BY <1>21, <2>2 DEF NeedsItsMedium, Reuses
  <2>. QED
    BY <1>1, <1>2, <2>1, <2>2, <2>3, MediaStep
<1>17. ASSUME NEW w \in Worker, Stages(w) PROVE MediaInv'
  <2>1. /\ UNCHANGED <<janitor, recovered, draft>> /\ staged' = staged \cup {mediaCount + 1}
        /\ \A v \in Worker : v # w => Same(v)
        /\ pc'[w] = "saveStaging" => copy'[w].staging = mediaCount + 1
        /\ pc'[w] \in {"saveStaging", "fail"}
    BY <1>17 DEF Stages, Frame, Same
  <2>2. \A m : Kept(m, staged, janitor) => Kept(m, staged', janitor')
    BY <2>1 DEF Kept
  <2>3. janitor.media # mediaCount + 1
    BY DEF Types
  <2>4. Kept(mediaCount + 1, staged', janitor')
    BY <2>1, <2>3 DEF Kept
  <2>5. NeedsItsMedium(w)' => Kept(copy'[w].staging, staged', janitor')
    BY <2>1, <2>4 DEF NeedsItsMedium
  <2>. QED
    BY <1>1, <1>2, <2>1, <2>2, <2>5, MediaStep
<1>18. ASSUME NEW w \in Worker, SavesMedium(w) PROVE MediaInv'
  <2>1. /\ UNCHANGED <<staged, janitor, recovered>> /\ draft.state = "publishing"
        /\ \A v \in Worker : v # w => Same(v)
        /\ pc[w] = "saveStaging" /\ pc'[w] = "container" /\ copy'[w] = copy[w]
        /\ draft'.staging = copy[w].staging
    BY <1>18 DEF SavesMedium, Frame, Same, stager
  <2>2. copy[w].state = "publishing"
    <3>1. pc[w] \in Claimed
      BY <2>1 DEF Claimed
    <3>2. copy[w].state # "published"
      BY <2>1, <3>1 DEF PublishInv, SeesItPublished
    <3>. QED
      BY <3>1, <3>2 DEF Types, CopyOK
  <2>3. NeedsItsMedium(w)
    BY <2>1, <2>2 DEF NeedsItsMedium
  <2>4. ~recovered => Kept(draft'.staging, staged', janitor')
    BY <2>1, <2>3 DEF MediaInv, Safe
  <2>. QED
    BY <1>1, <2>1, <2>3, <2>4, MediaStep
<1>19. ASSUME NEW w \in Worker, CleansUp(w) PROVE MediaInv'
  <2>1. /\ UNCHANGED <<janitor, recovered, draft, now>>
        /\ \A v \in Worker : Other(v) \/ Same(v)
        /\ pc[w] = "cleanup"
    BY <1>19 DEF CleansUp, Frame, Same, Other
  <2>2. draft.state = "published"
    BY <2>1 DEF PublishInv, SeesItPublished, Ending
  <2>3. ~DraftNeedsItsMedium'
    BY <2>1, <2>2 DEF DraftNeedsItsMedium
  <2>4. ~recovered => \A v \in Worker : ~NeedsItsMedium(v)
    BY <2>2, NeedingIsPublishing
  <2>5. ~recovered => \A v \in Worker : ~NeedsItsMedium(v)'
    BY <1>1, <2>1, <2>4
  <2>. QED
    BY <2>1, <2>3, <2>5 DEF MediaInv
<1>20. CASE JanitorStep
  <2>1. UNCHANGED <<recovered, now>> /\ \A v \in Worker : Same(v)
    BY <1>20 DEF JanitorStep, Same
  <2>2. CASE janitor'.pc # "cleanup" /\ UNCHANGED <<draft, staged>>
    <3>1. \A m : Kept(m, staged, janitor) => Kept(m, staged', janitor')
      BY <2>2 DEF Kept
    <3>. QED
      BY <1>1, <1>2, <2>1, <2>2, <3>1, MediaStep
  <2>3. CASE Expired /\ UNCHANGED <<draft, staged>>
    <3>1. draft.state # "publishing" /\ SqlLeq(draft.until, now) /\ draft # NoDraft
      BY <2>3 DEF Expired, Known
    <3>2. ~(now + TicksPerSecond <= draft.until)
      <4>1. draft.until \in Nat /\ now \in Nat /\ TicksPerSecond \in Nat
        BY <3>1, TicksAssumption DEF Types, DraftOK
      <4>2. draft.until < now + TicksPerSecond
        BY <3>1, <4>1, SqlLeqWithinASecond
      <4>. QED
        BY <4>1, <4>2
    <3>3. ~DraftNeedsItsMedium'
      BY <2>1, <2>3, <3>2 DEF DraftNeedsItsMedium
    <3>4. ~recovered => \A v \in Worker : ~NeedsItsMedium(v)
      BY <3>1, NeedingIsPublishing
    <3>5. ~recovered => \A v \in Worker : ~NeedsItsMedium(v)'
      BY <1>1, <2>1, <3>4
    <3>. QED
      BY <2>1, <3>3, <3>5 DEF MediaInv
  <2>4. CASE /\ janitor.pc = "cleanup" /\ janitor'.pc = "clear"
             /\ staged' = staged \ {janitor.media} /\ UNCHANGED draft
    <3>1. \A m : Kept(m, staged, janitor) => Kept(m, staged', janitor')
      BY <2>4 DEF Kept
    <3>. QED
      BY <1>1, <1>2, <2>1, <2>4, <3>1, MediaStep
  <2>5. CASE /\ janitor'.pc = "idle" /\ Updates({"staging", "until"}) /\ draft'.staging = 0
             /\ UNCHANGED staged
    <3>1. \A m : Kept(m, staged, janitor) => Kept(m, staged', janitor')
      BY <2>5 DEF Kept
    <3>. QED
      BY <1>1, <1>4, <2>1, <2>5, <3>1, MediaStep
  <2>. QED
    BY <1>20, <2>2, <2>3, <2>4, <2>5 DEF JanitorStep
<1>. QED
  BY <1>6, <1>7, <1>8, <1>9, <1>10, <1>11, <1>12, <1>13, <1>14, <1>15, <1>16, <1>17, <1>18, <1>19,
     <1>20, <1>21
     DEF AnyEffect, Effect

\* Stage, SaveStaging and CreateContainer next to CleanupExpired: as long as Recover
\* does not interfere, the medium that a container is made from is there, if it
\* had a second to live when it was taken.
THEOREM MediaAreKept == Spec => []MediaInUseIsKept
<1>1. Init => MediaInv
  BY DEF Init, MediaInv, NeedsItsMedium, DraftNeedsItsMedium, NoDraft
<1>2. ASSUME Types, PublishInv, MediaInv, [Next]_vars PROVE MediaInv'
  BY <1>2, NextEffect, MediaKept
<1>3. ASSUME Types, MediaInv PROVE MediaInUseIsKept
  <2>1. SUFFICES ASSUME NEW w \in Worker, ~recovered,
                        pc[w] \in {"saveStaging", "container"}, copy[w].state = "publishing",
                        copy[w].until - copy[w].seen >= TicksPerSecond
                 PROVE  copy[w].staging \in staged
    BY DEF MediaInUseIsKept
  <2>2. copy[w].until \in Nat /\ copy[w].seen \in Nat /\ TicksPerSecond \in Nat
    BY <1>3, <2>1, TicksAssumption DEF Types, CopyOK, Claimed
  <2>3. copy[w].seen + TicksPerSecond <= copy[w].until
    BY <2>1, <2>2
  <2>4. NeedsItsMedium(w)
    BY <2>1, <2>3 DEF NeedsItsMedium
  <2>. QED
    BY <1>3, <2>1, <2>4 DEF MediaInv, Safe, Kept
<1>. QED
  BY <1>1, <1>2, <1>3, PublishInvariant, PTL DEF Spec
=============================================================================
