----------------------------- MODULE Instagram -----------------------------
(***************************************************************************)
(* Publishing to Instagram: Service and its draft table, with the approval *)
(* that a publication needs, the media stager and the Graph API.           *)
(*                                                                         *)
(* One draft; several workers run PublishApproved or Resume for it at the  *)
(* same time (calls of the tool instagram.publish, or processes), next to  *)
(* CleanupExpired and Recover.  Every database call and every call of a    *)
(* provider is a step.  A provider's call may fail before or after it took *)
(* effect; a worker may die at any point.  The audit rows are left to      *)
(* Agent.                                                                  *)
(***************************************************************************)
EXTENDS Approval, SqlTime, FiniteSets

CONSTANTS Worker,
          Contents,         \* what may be published: [caption, publishAt], everything
                            \* that PublishBinding fixes
          Owner,
          ApprovalTTL, StageTTL,
          Margin,           \* staged media must live longer than this, one minute
          MaxAttempts, MaxPolls,
          MaxMedia,         \* bound: media staged in one behaviour
          MaxFaults         \* bound: failing calls, and deaths of a worker

ASSUME TimesAssumption ==
    /\ StageTTL \in Nat /\ Margin \in Nat /\ StageTTL > Margin /\ Margin >= TicksPerSecond
    /\ MaxPolls \in Nat \ {0} /\ MaxAttempts \in Nat \ {0}
    /\ \A c \in Contents : c.publishAt \in Nat

VARIABLES draft,            \* the row of instagram_drafts
          pc,               \* where a worker is
          copy,             \* the worker's copy of the draft, and what it was told
          staged,           \* media the stager holds
          mediaCount,       \* media staged so far
          containers,       \* containers at the provider, by idempotency key
          posts,            \* posts at the provider, by idempotency key
          janitor,          \* CleanupExpired: where it is, with which medium
          recovered,        \* Recover has failed a draft that somebody is publishing
          faults

provider == <<containers, posts>>
stager   == <<staged, mediaCount>>
vars     == <<now, approvals, draft, pc, copy, stager, provider, janitor, recovered, faults>>

NoDraft == [state |-> "none"]
NoCopy  == [staging |-> 0]

Init ==
    /\ ApprovalInit
    /\ draft = NoDraft
    /\ pc = [w \in Worker |-> "idle"] /\ copy = [w \in Worker |-> NoCopy]
    /\ staged = {} /\ mediaCount = 0
    /\ containers = <<>> /\ posts = <<>>
    /\ janitor = [pc |-> "idle", media |-> 0]
    /\ recovered = FALSE /\ faults = 0

Fault   == faults < MaxFaults /\ faults' = faults + 1
NoFault == UNCHANGED faults

Known == draft # NoDraft

\* PublishBinding of the draft, and the approval that it takes.
bindingFor(d) == d.content
Binding(c) == [user |-> Owner, tool |-> "instagram.publish", args |-> c, resource |-> "account"]

----------------------------------------------------------------------------
(***************************************************************************)
(* Preparing and approving.                                                *)
(***************************************************************************)
NewDraft(c) ==
    [content |-> c, state |-> "prepared", attempts |-> 0, available |-> c.publishAt,
     authorized |-> Null, staging |-> 0, until |-> 0, container |-> 0, media |-> 0]

\* A second request with the same creation key gets the draft or a conflict.
Prepare(c) ==
    /\ ~Known
    /\ draft' = NewDraft(c)
    /\ UNCHANGED <<now, approvals, pc, copy, stager, provider, janitor, recovered, faults>>

\* RequestApproval for the draft, or a call of the tool with any binding.
AskApproval(c) ==
    /\ Known
    /\ Create(Binding(c), ApprovalTTL, TRUE)
    /\ UNCHANGED <<now, draft, pc, copy, stager, provider, janitor, recovered, faults>>

Answer(t, decision) ==
    /\ ResolveToken(t, Owner, decision, TRUE)
    /\ UNCHANGED <<now, draft, pc, copy, stager, provider, janitor, recovered, faults>>

----------------------------------------------------------------------------
(***************************************************************************)
(* A worker.                                                               *)
(***************************************************************************)
With(w, label, c) ==
    /\ pc' = [pc EXCEPT ![w] = label]
    /\ copy' = [copy EXCEPT ![w] = IF label = "idle" THEN NoCopy ELSE c]
    /\ UNCHANGED <<now, requests, trail, janitor, recovered>>

Goto(w, label) == With(w, label, copy[w])

Rest == UNCHANGED <<uses, draft, stager, provider>>

\* PublishWithToken, or the tool after Execute has taken the approval.
Present(w, t, c) ==
    /\ pc[w] = "idle" /\ AuthorizeReceipt(t, Binding(c))
    /\ pc' = [pc EXCEPT ![w] = "approved"]
    /\ copy' = [copy EXCEPT ![w] = [binding |-> c, expires |-> requests[t].expires]]
    /\ UNCHANGED <<now, draft, stager, provider, janitor, recovered, faults>>

\* PublishApproved gets the draft: the receipt must be for it and still good.
BadAccepts(w) == Known /\ now < copy[w].expires
Accepts(w)    == Known /\ copy[w].binding = bindingFor(draft) /\ now < copy[w].expires

PublishApproved(w) ==
    /\ pc[w] = "approved"
    /\ Goto(w, IF Accepts(w) THEN "mark" ELSE "idle")
    /\ NoFault /\ Rest

\* MarkAuthorized, and an audit row that must be written.
MarkAuthorized(w) ==
    /\ pc[w] = "mark"
    /\ \/ /\ draft.state \in {"prepared", "failed"}
          /\ draft' = [draft EXCEPT !.authorized = copy[w].expires]
          /\ \/ NoFault /\ Goto(w, "resume")
             \/ Fault   /\ Goto(w, "idle")
       \/ /\ draft.state \notin {"prepared", "failed"} /\ NoFault /\ Goto(w, "idle")
          /\ UNCHANGED draft
    /\ UNCHANGED <<uses, stager, provider>>

Resume(w) == pc[w] = "idle" /\ Known /\ Goto(w, "resume") /\ NoFault /\ Rest

Get(w) ==
    /\ pc[w] = "resume"
    /\ Goto(w, IF draft.state = "published" THEN "idle" ELSE "claim")
    /\ NoFault /\ Rest

BadClaimable == /\ draft.state \in {"prepared", "failed", "publishing"}
                /\ draft.attempts < MaxAttempts
                /\ draft.authorized # Null /\ now < draft.authorized
                /\ now >= draft.content.publishAt /\ now >= draft.available
Claimable ==
    /\ draft.state \in {"prepared", "failed"}
    /\ draft.attempts < MaxAttempts
    /\ draft.authorized # Null /\ now < draft.authorized
    /\ now >= draft.content.publishAt /\ now >= draft.available

\* What Resume uses of the draft it has claimed, and its count of polls; seen is
\* when it compared the expiry of the medium with the clock (only the property
\* reads it).
Copied(d) == [state |-> d.state, content |-> d.content, staging |-> d.staging, until |-> d.until,
              container |-> d.container, attempts |-> d.attempts, polls |-> 0, seen |-> 0]

\* Claim; a draft that was published meanwhile is returned without an error, and
\* Resume goes on with it.
Claim(w) ==
    /\ pc[w] = "claim" /\ NoFault
    /\ \/ /\ Claimable
          /\ draft' = [draft EXCEPT !.state = "publishing", !.attempts = @ + 1]
          /\ With(w, "stage", Copied(draft'))
       \/ draft.state = "published" /\ With(w, "stage", Copied(draft)) /\ UNCHANGED draft
       \/ draft.state # "published" /\ ~Claimable /\ Goto(w, "idle") /\ UNCHANGED draft
    /\ UNCHANGED <<uses, stager, provider>>

\* The staged medium of the draft, unless there is none or it has expired: then
\* another one, whose expiry the stager chooses.
Stage(w) ==
    /\ pc[w] = "stage"
    /\ \/ /\ copy[w].staging # 0 /\ now < copy[w].until
          /\ NoFault /\ With(w, "container", [copy[w] EXCEPT !.seen = now])
          /\ UNCHANGED stager
       \/ /\ copy[w].staging = 0 \/ now >= copy[w].until
          /\ mediaCount < MaxMedia
          /\ \E until \in {now + Margin, now + StageTTL} :
                /\ staged' = staged \cup {mediaCount + 1} /\ mediaCount' = mediaCount + 1
                /\ \/ /\ until > now + Margin /\ NoFault
                      /\ With(w, "saveStaging",
                              [copy[w] EXCEPT !.staging = mediaCount + 1, !.until = until,
                                              !.seen = now])
                   \/ until <= now + Margin /\ Fault /\ Goto(w, "fail")
       \/ /\ copy[w].staging = 0 \/ now >= copy[w].until
          /\ Fault /\ Goto(w, "fail")
          /\ UNCHANGED stager
    /\ UNCHANGED <<uses, draft, provider>>

\* SaveStaging does not notice that nothing was updated.
SaveStaging(w) ==
    /\ pc[w] = "saveStaging"
    /\ \/ /\ NoFault /\ Goto(w, "container")
          /\ draft' = IF draft.state # "publishing" THEN draft
                      ELSE [draft EXCEPT !.staging = copy[w].staging, !.until = copy[w].until]
       \/ Fault /\ Goto(w, "fail") /\ UNCHANGED draft
    /\ UNCHANGED <<uses, stager, provider>>

----------------------------------------------------------------------------
(***************************************************************************)
(* The Graph API, which makes one container and one post per key, and the  *)
(* worker's calls of it.                                                   *)
(***************************************************************************)
Key == 1                    \* "instagram-container:" and "instagram-publish:" + draft.ID

\* Unless there is one already, the provider makes a thing for the key.
Made(things, key, thing) ==
    [k \in DOMAIN things \cup {key} |-> IF k \in DOMAIN things THEN things[k] ELSE thing]

CreateContainer(w) ==
    /\ pc[w] = "container"
    /\ LET made == Made(containers, Key,
                        [content |-> copy[w].content, status |-> "IN_PROGRESS"])
           polling == [copy[w] EXCEPT !.container = Key]
       IN  \/ copy[w].container # 0 /\ NoFault /\ Goto(w, "poll") /\ UNCHANGED containers
           \/ /\ copy[w].container = 0 /\ NoFault /\ containers' = made
              /\ With(w, "saveContainer", polling)
           \/ /\ copy[w].container = 0 /\ Fault /\ containers' \in {containers, made}
              /\ Goto(w, "fail")
    /\ UNCHANGED <<uses, draft, stager, posts>>

SaveContainer(w) ==
    /\ pc[w] = "saveContainer"
    /\ \/ /\ NoFault /\ Goto(w, "poll")
          /\ draft' = IF draft.state # "publishing" THEN draft
                      ELSE [draft EXCEPT !.container = copy[w].container]
       \/ Fault /\ Goto(w, "fail") /\ UNCHANGED draft
    /\ UNCHANGED <<uses, stager, provider>>

\* The provider works on a container, and forgets it after a day.
Proceed(k, status) ==
    /\ \/ containers[k].status = "IN_PROGRESS" /\ status \in {"FINISHED", "ERROR"}
       \/ containers[k].status = "FINISHED" /\ status = "EXPIRED"
    /\ containers' = [containers EXCEPT ![k].status = status]
    /\ UNCHANGED <<now, approvals, draft, pc, copy, stager, posts, janitor, recovered, faults>>

\* ContainerStatus, up to MaxPolls times.
Poll(w) ==
    /\ pc[w] = "poll"
    /\ LET status == containers[copy[w].container].status
           last   == copy[w].polls + 1 >= MaxPolls
       IN  \/ status = "FINISHED" /\ NoFault /\ Goto(w, "check")
           \/ /\ status = "IN_PROGRESS" /\ ~last /\ NoFault
              /\ With(w, "poll", [copy[w] EXCEPT !.polls = @ + 1])
           \/ status = "IN_PROGRESS" /\ last /\ NoFault /\ Goto(w, "fail")
           \/ status \in {"ERROR", "EXPIRED"} /\ NoFault /\ Goto(w, "fail")
           \/ Fault /\ Goto(w, "fail")
    /\ UNCHANGED <<uses, draft, stager, provider>>

\* The authorization must still be good just before the publication.
Check(w) ==
    /\ pc[w] = "check" /\ NoFault
    /\ Goto(w, IF draft.authorized # Null /\ now < draft.authorized THEN "publish" ELSE "fail")
    /\ Rest

PublishContainer(w) ==
    /\ pc[w] = "publish"
    /\ LET c    == containers[copy[w].container]
           made == Made(posts, Key, [content |-> c.content, at |-> now])
       IN  \/ c.status = "FINISHED" /\ NoFault /\ Goto(w, "complete") /\ posts' = made
           \/ c.status = "FINISHED" /\ Fault /\ Goto(w, "fail") /\ posts' \in {posts, made}
           \/ c.status # "FINISHED" /\ NoFault /\ Goto(w, "fail") /\ UNCHANGED posts
    /\ UNCHANGED <<uses, draft, stager, containers>>

----------------------------------------------------------------------------
(***************************************************************************)
(* The end of Resume.                                                      *)
(***************************************************************************)
Complete(w) ==
    /\ pc[w] = "complete"
    /\ \/ /\ draft.state = "publishing" /\ NoFault /\ Goto(w, "cleanup")
          /\ draft' = [draft EXCEPT !.state = "published", !.media = Key]
       \/ draft.state # "publishing" /\ NoFault /\ Goto(w, "fail") /\ UNCHANGED draft
       \/ Fault /\ Goto(w, "fail") /\ UNCHANGED draft
    /\ UNCHANGED <<uses, stager, provider>>

Cleanup(w) ==
    /\ pc[w] = "cleanup"
    /\ \/ NoFault /\ Goto(w, "clear") /\ staged' = staged \ {copy[w].staging}
       \/ Fault   /\ Goto(w, "idle")  /\ staged' \in {staged, staged \ {copy[w].staging}}
    /\ UNCHANGED <<uses, draft, mediaCount, provider>>

Cleared == [draft EXCEPT !.staging = 0, !.until = 0]

ClearStaging(w) ==
    /\ pc[w] = "clear" /\ Goto(w, "idle")
    /\ \/ NoFault /\ draft' = Cleared
       \/ Fault   /\ UNCHANGED draft
    /\ UNCHANGED <<uses, stager, provider>>

Delay == TicksPerSecond * 2 ^ (IF draft.attempts - 1 < 6 THEN draft.attempts - 1 ELSE 6)

BadFailed == [draft EXCEPT !.state = "failed", !.available = now + Delay]
Failed == IF draft.state # "publishing" THEN draft
          ELSE [draft EXCEPT !.state = "failed", !.available = now + Delay]

\* The deferred Fail; its own error is ignored.
Fail(w) ==
    /\ pc[w] = "fail" /\ Goto(w, "idle")
    /\ \/ NoFault /\ draft' = Failed
       \/ Fault   /\ UNCHANGED draft
    /\ UNCHANGED <<uses, stager, provider>>

Work(w) == \/ PublishApproved(w) \/ MarkAuthorized(w) \/ Resume(w) \/ Get(w) \/ Claim(w) \/ Stage(w)
           \/ SaveStaging(w) \/ CreateContainer(w) \/ SaveContainer(w) \/ Poll(w) \/ Check(w)
           \/ PublishContainer(w) \/ Complete(w) \/ Cleanup(w) \/ ClearStaging(w) \/ Fail(w)

----------------------------------------------------------------------------
(***************************************************************************)
(* Crashes, recovery and the removal of expired media.                     *)
(***************************************************************************)
Die(w) == pc[w] # "idle" /\ Fault /\ Goto(w, "idle") /\ Rest

\* Worker w has claimed the draft and neither completed nor failed it.
Publishing(w) ==
    /\ pc[w] \in {"stage", "saveStaging", "container", "saveContainer", "poll", "check",
                  "publish", "complete", "fail"}
    /\ copy[w].state = "publishing"

\* Recover cannot tell a draft that nobody publishes any more from one that
\* another worker is publishing; the latter counts as a fault.
Recover ==
    /\ draft.state = "publishing"
    /\ draft' = [draft EXCEPT !.state = "failed", !.available = now]
    /\ \/ (\E w \in Worker : Publishing(w)) /\ Fault /\ recovered' = TRUE
       \/ (\A w \in Worker : ~Publishing(w)) /\ NoFault /\ UNCHANGED recovered
    /\ UNCHANGED <<now, approvals, pc, copy, stager, provider, janitor>>

\* The SQL compares the expiry with the time as text.
BadExpired == Known /\ draft.staging # 0 /\ SqlLeq(draft.until, now)
Expired    == Known /\ draft.staging # 0 /\ SqlLeq(draft.until, now) /\ draft.state # "publishing"

\* CleanupExpired: ExpiredStaging, then Cleanup, then ClearStaging.
Janitor ==
    /\ \/ /\ janitor.pc = "idle" /\ Expired /\ NoFault
          /\ janitor' = [pc |-> "cleanup", media |-> draft.staging]
          /\ UNCHANGED <<draft, staged>>
       \/ /\ janitor.pc = "cleanup" /\ NoFault
          /\ staged' = staged \ {janitor.media}
          /\ janitor' = [janitor EXCEPT !.pc = "clear"]
          /\ UNCHANGED draft
       \/ /\ janitor.pc = "clear" /\ NoFault
          /\ draft' = Cleared
          /\ janitor' = [pc |-> "idle", media |-> 0]
          /\ UNCHANGED staged
       \/ /\ janitor.pc # "idle" /\ Fault
          /\ janitor' = [pc |-> "idle", media |-> 0]
          /\ UNCHANGED <<draft, staged>>
    /\ UNCHANGED <<now, approvals, pc, copy, mediaCount, provider, recovered>>

Next ==
    \/ \E c \in Contents : Prepare(c) \/ AskApproval(c)
    \/ \E t \in Token, decision \in {"approved", "denied"} : Answer(t, decision)
    \/ \E w \in Worker : Work(w) \/ Die(w)
    \/ \E w \in Worker, t \in Token, c \in Contents : Present(w, t, c)
    \/ \E k \in DOMAIN containers, status \in {"FINISHED", "ERROR", "EXPIRED"} : Proceed(k, status)
    \/ Recover \/ Janitor
    \/ Tick /\ UNCHANGED <<approvals, draft, pc, copy, stager, provider, janitor, recovered, faults>>

Spec == Init /\ [][Next]_vars

----------------------------------------------------------------------------
\* However often a draft is claimed, recovered, completed late or published by
\* two workers at once, there is one post of it, because every PublishContainer
\* carries the same key.  It is what the owner approved, and not before its time:
\* the container was made from a draft that an approval, used in time, was bound
\* to.
OneApprovedPost ==
    /\ Cardinality(DOMAIN posts) <= 1
    /\ \A k \in DOMAIN posts :
          /\ posts[k].at >= posts[k].content.publishAt
          /\ \E t \in DOMAIN uses : /\ requests[t].state = "approved"
                                    /\ requests[t].bind = Binding(posts[k].content)
                                    /\ uses[t] <= posts[k].at

\* A published draft has its post, and stays published: a worker that comes late,
\* goes on with a draft that Claim found published, or fails after it, and
\* Recover, take nothing back.
PublishedIsFinal ==
    [][(Known /\ draft.state = "published") =>
          /\ draft.media \in DOMAIN posts
          /\ draft'.state = "published" /\ draft'.media = draft.media]_vars

\* Two workers publish a draft at once only after Recover took it from one of
\* them: Claim gives it to one.
OnePublisherUnlessRecovered ==
    \A v, w \in Worker : (Publishing(v) /\ Publishing(w) /\ ~recovered) => v = w

\* Unless Recover interferes, a container is made from a medium that is still
\* there: CleanupExpired leaves alone what a worker is about to use, although the
\* row it has read may be claimed again before it removes the medium.  This
\* takes a medium with a second to live when the worker decided to use it: in
\* the order of the text a medium may be picked up to a second before it expires,
\* while Resume, which compares instants, still finds it good.
MediaInUseIsKept ==
    \A w \in Worker :
        /\ pc[w] \in {"saveStaging", "container"} /\ copy[w].state = "publishing" /\ ~recovered
        /\ copy[w].until - copy[w].seen >= TicksPerSecond
        => copy[w].staging \in staged
=============================================================================
