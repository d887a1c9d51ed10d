------------------------------- MODULE Assets -------------------------------
(***************************************************************************)
(* The assets capability over an object storage: upload intents, their     *)
(* finalization, the normalization of content images, deletion.            *)
(*                                                                         *)
(* A worker runs a workflow's step in several moves: it reads rows, calls  *)
(* the storage, commits.  FinalizeActivity and DeleteActivity write in the *)
(* step's own unit of work; NormalizeContentImage commits one of its own   *)
(* before the step is recorded.  A step whose lease has run out may be     *)
(* executed a second time beside the first.                                *)
(***************************************************************************)
EXTENDS Integers, FiniteSets, Sequences

CONSTANTS
    Intents,          \* upload intents; each names the object of its upload
    Hands,            \* workers and requests that may be busy at one time
    MaxImages,        \* bound: normalized images
    MaxStepAttempts,  \* attempts of a workflow step
    MaxOverlaps,      \* bound: executions beside a running one
    MaxAssetCalls     \* bound: commands

ASSUME AssetsAssumption ==
    /\ Intents \intersect Int = {}
    /\ {MaxImages, MaxStepAttempts, MaxOverlaps, MaxAssetCalls} \subseteq Nat

VARIABLES
    intent,       \* the assets_upload_intents rows
    asset,        \* the assets_objects row of each object
    inStore,       \* the objects in the storage
    flow,         \* the workflows: one per kind and intent or asset
    hand,         \* what each worker is in the middle of
    images,       \* object keys of normalized images drawn so far
    overlaps,
    assetCalls

assetsVars == <<intent, asset, inStore, flow, hand, images, overlaps, assetCalls>>

Objects == Intents \union (1..MaxImages)
Flows == ({"plain", "image"} \X Intents) \union ({"delete"} \X Objects)
NoAsset == [state |-> "none", confirmed |-> FALSE, source |-> "none"]

AssetsTypeOK ==
    /\ intent \in [Intents -> {"none", "open", "expired", "consumed"}]
    /\ asset \in [Objects -> [state : {"none", "ready", "deleted"}, confirmed : BOOLEAN,
                              source : Intents \union {"none"}]]
    /\ inStore \subseteq Objects
    /\ flow \in [Flows -> [step : {"none", "finalize", "normalize", "delete", "done",
                                   "failed"},
                           attempts : 0..MaxStepAttempts]]
    /\ DOMAIN hand = Hands
    /\ images \in 0..MaxImages /\ overlaps \in 0..MaxOverlaps
    /\ assetCalls \in 0..MaxAssetCalls

AssetsInit ==
    /\ intent = [i \in Intents |-> "none"]
    /\ asset = [o \in Objects |-> NoAsset]
    /\ inStore = {}
    /\ flow = [f \in Flows |-> [step |-> "none", attempts |-> 0]]
    /\ hand = [h \in Hands |-> <<>>]
    /\ images = 0 /\ overlaps = 0 /\ assetCalls = 0

AssetCall == assetCalls < MaxAssetCalls /\ assetCalls' = assetCalls + 1

Doing(h, what) == hand[h] # <<>> /\ hand[h][1] = what
Does(h, what, x) == hand' = [hand EXCEPT ![h] = <<what, x>>]
Stops(h) == hand' = [hand EXCEPT ![h] = <<>>]

(***************************************************************************)
(* Requests.                                                               *)
(***************************************************************************)
CreateUploadIntent(i) ==
    /\ AssetCall
    /\ intent[i] = "none"
    /\ intent' = [intent EXCEPT ![i] = "open"]
    /\ UNCHANGED <<asset, inStore, flow, hand, images, overlaps>>

(* The client uploads with the credentials of the intent (external).       *)
ClientUploads(i) ==
    /\ intent[i] = "open" /\ i \notin inStore
    /\ inStore' = inStore \union {i}
    /\ UNCHANGED <<intent, asset, flow, hand, images, overlaps, assetCalls>>

IntentExpires(i) ==
    /\ intent[i] = "open"
    /\ intent' = [intent EXCEPT ![i] = "expired"]
    /\ UNCHANGED <<asset, inStore, flow, hand, images, overlaps, assetCalls>>

(* runner.start creates the workflow unless it is there.                   *)
StartsFlow(f, step) ==
    flow' = IF flow[f].step = "none" THEN [flow EXCEPT ![f].step = step] ELSE flow

FinalizeAsset(i) ==
    /\ AssetCall
    /\ intent[i] = "open" /\ flow[<<"plain", i>>].step # "failed"
    /\ StartsFlow(<<"plain", i>>, "finalize")
    /\ UNCHANGED <<intent, asset, inStore, hand, images, overlaps>>

FinalizeContentImage(i) ==
    /\ AssetCall
    /\ intent[i] = "open" /\ flow[<<"image", i>>].step # "failed"
    /\ StartsFlow(<<"image", i>>, "finalize")
    /\ UNCHANGED <<intent, asset, inStore, hand, images, overlaps>>

(* A trusted registration of an object somebody uploaded; (provider, key)  *)
(* is unique.                                                              *)
RegisterExternalAsset(o) ==
    /\ AssetCall
    /\ o \in inStore /\ asset[o].state = "none"
    /\ asset' = [asset EXCEPT ![o].state = "ready"]
    /\ UNCHANGED <<intent, inStore, flow, hand, images, overlaps>>

(* The row is marked in one transaction, the workflow started after it.    *)
DeleteAsset(h, o) ==
    /\ AssetCall
    /\ hand[h] = <<>>
    /\ asset[o].state = "ready"
    /\ asset' = [asset EXCEPT ![o].state = "deleted"]
    /\ Does(h, "deleting", o)
    /\ UNCHANGED <<intent, inStore, flow, images, overlaps>>

StartDeletion(h) ==
    /\ Doing(h, "deleting") /\ Stops(h)
    /\ StartsFlow(<<"delete", hand[h][2]>>, "delete")
    /\ UNCHANGED <<intent, asset, inStore, images, overlaps, assetCalls>>

(* What a scan of AssetDeleteReconciler finds and starts again.            *)
ReconcileDeletion(o) ==
    /\ AssetCall
    /\ asset[o].state = "deleted" /\ ~asset[o].confirmed
    /\ flow[<<"delete", o>>].step = "none"
    /\ StartsFlow(<<"delete", o>>, "delete")
    /\ UNCHANGED <<intent, asset, inStore, hand, images, overlaps>>

(***************************************************************************)
(* Workflow steps.                                                         *)
(***************************************************************************)
Runs(f) == {h \in Hands : hand[h] # <<>> /\ hand[h][1] # "deleting" /\ hand[h][2] = f}

(* A worker takes a step: one nobody runs, or one whose lease ran out.     *)
TakeStep(h, f) ==
    /\ hand[h] = <<>>
    /\ flow[f].step \in {"finalize", "normalize", "delete"}
    /\ overlaps' = IF Runs(f) = {} THEN overlaps ELSE overlaps + 1
    /\ overlaps' <= MaxOverlaps
    /\ Does(h, flow[f].step, f)
    /\ UNCHANGED <<intent, asset, inStore, flow, images, assetCalls>>

(* The runner records the step only if the workflow still stands at it.    *)
Records(f, at, step) ==
    flow' = IF flow[f].step = at THEN [flow EXCEPT ![f] = [step |-> step, attempts |-> 0]]
                                 ELSE flow

FailsStep(f, at, forGood) ==
    flow' = IF flow[f].step # at THEN flow
            ELSE IF forGood \/ flow[f].attempts + 1 >= MaxStepAttempts
            THEN [flow EXCEPT ![f].step = "failed"]
            ELSE [flow EXCEPT ![f].attempts = @ + 1]

AfterFinalize(f) == IF f[1] = "image" THEN "normalize" ELSE "done"

(* Of the workflows of one intent, the second finds it consumed; the       *)
(* content image workflow then has no source and its next step fails.      *)
SkipFinalize(h) ==
    /\ Doing(h, "finalize") /\ Stops(h)
    /\ LET f == hand[h][2] IN
       /\ intent[f[2]] = "consumed"
       /\ Records(f, "finalize", IF f[1] = "image" THEN "failed" ELSE "done")
    /\ UNCHANGED <<intent, asset, inStore, images, overlaps, assetCalls>>

FinalizeActivity(h) ==
    /\ Doing(h, "finalize") /\ Stops(h)
    /\ LET f == hand[h][2]
           i == f[2]
       IN \/ /\ intent[i] # "consumed" /\ i \in inStore /\ asset[i].state = "none"
             /\ flow[f].step = "finalize"
             /\ asset' = [asset EXCEPT ![i].state = "ready"]
             /\ intent' = [intent EXCEPT ![i] = "consumed"]
             /\ Records(f, "finalize", AfterFinalize(f))
          \/ /\ intent[i] # "consumed"
             /\ \E forGood \in BOOLEAN : FailsStep(f, "finalize", forGood)
             /\ UNCHANGED <<asset, intent>>
    /\ UNCHANGED <<inStore, images, overlaps, assetCalls>>

(* The source is checked, then read; a failure discards it.                *)
NormalizeReads(h) ==
    /\ Doing(h, "normalize")
    /\ LET f == hand[h][2] IN
       \/ asset[f[2]].state # "ready" /\ FailsStep(f, "normalize", FALSE) /\ Stops(h)
       \/ asset[f[2]].state = "ready" /\ UNCHANGED flow /\ Does(h, "reading", f)
    /\ UNCHANGED <<intent, asset, inStore, images, overlaps, assetCalls>>

PutImage(h) ==
    /\ Doing(h, "reading")
    /\ LET f == hand[h][2] IN
       \/ /\ f[2] \in inStore /\ images < MaxImages
          /\ images' = images + 1
          /\ inStore' = inStore \union {images + 1}
          /\ hand' = [hand EXCEPT ![h] = <<"putting", f, images + 1>>]
       \/ \E forGood \in BOOLEAN, gone \in BOOLEAN :
             /\ inStore' = IF gone THEN inStore \ {f[2]} ELSE inStore
             /\ hand' = [hand EXCEPT ![h] = <<"discarding", f, forGood>>]
             /\ UNCHANGED images
    /\ UNCHANGED <<intent, asset, flow, overlaps, assetCalls>>

DiscardSource(h) ==
    /\ Doing(h, "discarding") /\ Stops(h)
    /\ LET f == hand[h][2] IN
       /\ asset' = IF asset[f[2]].state = "ready"
                   THEN [asset EXCEPT ![f[2]].state = "deleted", ![f[2]].confirmed = TRUE]
                   ELSE asset
       /\ FailsStep(f, "normalize", hand[h][3])
    /\ UNCHANGED <<intent, inStore, images, overlaps, assetCalls>>

SourceUnchanged(s) == asset[s].state = "ready"

\* A mutant of Spent: the commit of the image leaves its source ready.
SourceLeftReady(row) == row

Spent(row) == [row EXCEPT !.state = "deleted", !.confirmed = TRUE]

(* The image and the end of its source are one transaction.                *)
CommitImage(h) ==
    /\ Doing(h, "putting")
    /\ LET f == hand[h][2]
           n == hand[h][3]
       IN \/ /\ SourceUnchanged(f[2])
             /\ asset' = [asset EXCEPT
                   ![n] = [state |-> "ready", confirmed |-> FALSE, source |-> f[2]],
                   ![f[2]] = Spent(@)]
             /\ Does(h, "clearing", f)
             /\ UNCHANGED <<inStore, flow>>
          \/ /\ ~SourceUnchanged(f[2])
             /\ inStore' \in {inStore, inStore \ {n}}
             /\ FailsStep(f, "normalize", FALSE) /\ Stops(h)
             /\ UNCHANGED asset
    /\ UNCHANGED <<intent, images, overlaps, assetCalls>>

(* A failure to remove the source is passed over.                          *)
ClearSource(h) ==
    /\ Doing(h, "clearing") /\ Stops(h)
    /\ inStore' \in {inStore, inStore \ {hand[h][2][2]}}
    /\ Records(hand[h][2], "normalize", "done")
    /\ UNCHANGED <<intent, asset, images, overlaps, assetCalls>>

(* Deleting an object that is gone succeeds.                               *)
DeleteObject(h) ==
    /\ Doing(h, "delete")
    /\ LET f == hand[h][2] IN
       \/ /\ asset[f[2]].confirmed
          /\ Records(f, "delete", "done") /\ Stops(h)
          /\ UNCHANGED inStore
       \/ /\ ~asset[f[2]].confirmed
          /\ inStore' = inStore \ {f[2]}
          /\ Does(h, "confirming", f)
          /\ UNCHANGED flow
       \/ /\ ~asset[f[2]].confirmed
          /\ FailsStep(f, "delete", FALSE) /\ Stops(h)
          /\ UNCHANGED inStore
    /\ UNCHANGED <<intent, asset, images, overlaps, assetCalls>>

ConfirmDeletion(h) ==
    /\ Doing(h, "confirming") /\ Stops(h)
    /\ LET f == hand[h][2] IN
       /\ asset' = IF flow[f].step = "delete" THEN [asset EXCEPT ![f[2]].confirmed = TRUE]
                                              ELSE asset
       /\ Records(f, "delete", "done")
    /\ UNCHANGED <<intent, inStore, images, overlaps, assetCalls>>

(* A crash ends what a worker or a request was doing; an attempt is        *)
(* recorded only with its outcome.                                         *)
CrashHand(h) ==
    /\ hand[h] # <<>> /\ AssetCall
    /\ Stops(h)
    /\ UNCHANGED <<intent, asset, inStore, flow, images, overlaps>>

AssetsNext ==
    \/ \E i \in Intents : \/ CreateUploadIntent(i) \/ ClientUploads(i) \/ IntentExpires(i)
                          \/ FinalizeAsset(i) \/ FinalizeContentImage(i)
    \/ \E o \in Intents : RegisterExternalAsset(o)
    \/ \E o \in Objects : ReconcileDeletion(o)
    \/ \E h \in Hands :
          \/ \E o \in Objects : DeleteAsset(h, o)
          \/ \E f \in Flows : TakeStep(h, f)
          \/ StartDeletion(h)
          \/ SkipFinalize(h) \/ FinalizeActivity(h)
          \/ NormalizeReads(h) \/ PutImage(h) \/ DiscardSource(h)
          \/ CommitImage(h) \/ ClearSource(h)
          \/ DeleteObject(h) \/ ConfirmDeletion(h)
          \/ CrashHand(h)

AssetsSpec == AssetsInit /\ [][AssetsNext]_assetsVars

(***************************************************************************)
(* Properties.                                                             *)
(***************************************************************************)
(* A ready content image is in the storage and its source can never be     *)
(* served beside it, whatever failed or was executed twice on the way.     *)
ReadyImageStored ==
    \A n \in 1..MaxImages :
       asset[n].state = "ready" /\ asset[n].source # "none" =>
          n \in inStore /\ asset[asset[n].source].state = "deleted"
=============================================================================
