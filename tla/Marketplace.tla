----------------------------- MODULE Marketplace -----------------------------
(***************************************************************************)
(* The marketplace listing of one instance: the clone of the plugin        *)
(* collection that the git service brings up to date, the watcher that     *)
(* asks it to, the custom repositories that every instance keeps in one    *)
(* table, and the cache of the listing.                                    *)
(*                                                                         *)
(* The commits of the collection and the states of the table are numbered. *)
(* GitRepo says what a git:sync does in detail.                            *)
(***************************************************************************)
EXTENDS Integers

CONSTANTS
    Releases,    \* bound on the commits of the collection
    RepoChanges, \* bound on the changes of the custom repositories
    Listing,     \* the calls that ask GitHub: the bound on them at a time
    Syncs        \* bound on the syncs that wait or run

ASSUME ShopAssumption == Releases \in Nat \ {0} /\ RepoChanges \in Nat \ {0} /\ Syncs \in Nat

NotRead == 0

VARIABLES
    upstream,  \* the last commit of the collection
    clone,     \* the commit in the local clone, 0 for none
    head,      \* _last_known_head
    syncs,     \* requests to sync that have not ended
    gitSync,   \* the running one: what it has done, the commit it fetched
    failed,    \* one has failed
    announced, \* the clone when git:status_update last came
    customs,   \* state of custom_plugin_repositories
    own,       \* the state this instance left there
    cache,     \* _marketplace_cache, {} or one listing
    negative,  \* _negative_cache_until lies ahead
    listing    \* a call of fetch_marketplace_data() that awaits GitHub

shopVars ==
    <<upstream, clone, head, syncs, gitSync, failed, announced, customs, own, cache, negative, listing>>

NotSyncing   == [stage |-> "none", commit |-> 0]
NotAsked   == [stage |-> "idle", commit |-> 0, late |-> FALSE]

ShopInit ==
    /\ upstream = 1 /\ clone \in {0, 1} /\ head = 0
    /\ syncs = 0 /\ gitSync = NotSyncing /\ failed = FALSE /\ announced = 0
    /\ customs = 1 /\ own = 1
    /\ cache = {} /\ negative = FALSE
    /\ listing = [c \in Listing |-> NotAsked]

-----------------------------------------------------------------------------
(* The clone.                                                              *)

Publishes ==
    /\ upstream < Releases
    /\ upstream' = upstream + 1
    /\ UNCHANGED <<clone, head, syncs, gitSync, failed, announced, customs, own, cache, negative, listing>>

RequestSync == syncs < Syncs /\ syncs' = syncs + 1

ShopBoots ==
    /\ RequestSync
    /\ UNCHANGED <<upstream, clone, head, gitSync, failed, announced, customs, own, cache, negative, listing>>

WatcherPolls ==
    /\ upstream # head
    /\ RequestSync
    /\ head' = upstream
    /\ UNCHANGED <<upstream, clone, gitSync, failed, announced, customs, own, cache, negative, listing>>

SyncFetches ==
    /\ syncs > 0 /\ gitSync = NotSyncing
    /\ gitSync' = [stage |-> "fetched", commit |-> upstream]
    /\ UNCHANGED <<upstream, clone, head, syncs, failed, announced, customs, own, cache, negative, listing>>

SyncResets ==
    /\ gitSync.stage = "fetched"
    /\ gitSync' = [gitSync EXCEPT !.stage = "reset"]
    /\ clone' = gitSync.commit
    /\ UNCHANGED <<upstream, head, syncs, failed, announced, customs, own, cache, negative, listing>>

GitSyncFails ==
    /\ syncs > 0 /\ gitSync.stage # "reset"
    /\ syncs' = syncs - 1 /\ gitSync' = NotSyncing /\ failed' = TRUE
    /\ UNCHANGED <<upstream, clone, head, announced, customs, own, cache, negative, listing>>

\* on_git_status_update().  Before it, a wrong variant.
KeepsCache   == UNCHANGED cache /\ negative' = FALSE
CacheCleared == cache' = {} /\ negative' = FALSE

SyncAnnounced ==
    /\ gitSync.stage = "reset"
    /\ syncs' = syncs - 1 /\ gitSync' = NotSyncing
    /\ announced' = clone
    /\ CacheCleared
    /\ listing' = [c \in Listing |->
           IF listing[c].stage = "idle" THEN NotAsked ELSE [listing[c] EXCEPT !.late = TRUE]]
    /\ UNCHANGED <<upstream, clone, head, failed, customs, own>>

-----------------------------------------------------------------------------
(* The listing.                                                            *)

\* The custom repositories are read last; without the database they are left out.
ListingStored(commit, late) ==
    \E custom \in {customs, NotRead} :
        cache' = {[commit |-> commit, custom |-> custom, fresh |-> TRUE, late |-> late]}

\* Whether a call goes past the two caches.
GoesOn(force) == force \/ (~negative /\ \A l \in cache : ~l.fresh)

ReadsClone(force) ==
    /\ GoesOn(force) /\ clone > 0
    /\ ListingStored(clone, FALSE)
    /\ UNCHANGED <<upstream, clone, head, syncs, gitSync, failed, announced, customs, own, negative, listing>>

\* Without a clone, or while a sync rewrites the file.
AsksGitHub(c, force) ==
    /\ GoesOn(force) /\ listing[c] = NotAsked
    /\ clone = 0 \/ gitSync.stage = "fetched"
    /\ listing' = [listing EXCEPT ![c].stage = "asked"]
    /\ UNCHANGED <<upstream, clone, head, syncs, gitSync, failed, announced, customs, own, cache, negative>>

GitHubAnswers(c) ==
    /\ listing[c].stage = "asked"
    /\ listing' = [listing EXCEPT ![c].stage = "answered", ![c].commit = upstream]
    /\ UNCHANGED <<upstream, clone, head, syncs, gitSync, failed, announced, customs, own, cache, negative>>

ListingEnds(c) ==
    /\ listing[c].stage = "answered"
    /\ ListingStored(listing[c].commit, listing[c].late)
    /\ listing' = [listing EXCEPT ![c] = NotAsked]
    /\ UNCHANGED <<upstream, clone, head, syncs, gitSync, failed, announced, customs, own, negative>>

ListingFails(c) ==
    /\ listing[c].stage # "idle"
    /\ negative' = TRUE
    /\ listing' = [listing EXCEPT ![c] = NotAsked]
    /\ UNCHANGED <<upstream, clone, head, syncs, gitSync, failed, announced, customs, own, cache>>

ListingAges ==
    /\ \/ /\ \E l \in cache : l.fresh
          /\ cache' = {[l EXCEPT !.fresh = FALSE] : l \in cache}
          /\ UNCHANGED negative
       \/ /\ negative
          /\ negative' = FALSE
          /\ UNCHANGED cache
    /\ UNCHANGED <<upstream, clone, head, syncs, gitSync, failed, announced, customs, own, listing>>

-----------------------------------------------------------------------------
(* The custom repositories.                                                *)

AddsOrRemovesRepo ==
    /\ customs < RepoChanges
    /\ customs' = customs + 1 /\ own' = customs + 1
    /\ cache' = {}
    /\ UNCHANGED <<upstream, clone, head, syncs, gitSync, failed, announced, negative, listing>>

\* Nothing tells this instance; nor does its own call, when the statement that
\* notes the token fails after the row was committed.
PeerChangesRepos ==
    /\ customs < RepoChanges
    /\ customs' = customs + 1
    /\ UNCHANGED <<upstream, clone, head, syncs, gitSync, failed, announced, own, cache, negative, listing>>

ShopNext ==
    \/ Publishes \/ ShopBoots \/ WatcherPolls
    \/ SyncFetches \/ SyncResets \/ GitSyncFails \/ SyncAnnounced
    \/ ListingAges \/ AddsOrRemovesRepo \/ PeerChangesRepos
    \/ \E force \in BOOLEAN : ReadsClone(force) \/ \E c \in Listing : AsksGitHub(c, force)
    \/ \E c \in Listing : GitHubAnswers(c) \/ ListingEnds(c) \/ ListingFails(c)

ShopSpec == ShopInit /\ [][ShopNext]_shopVars

-----------------------------------------------------------------------------
GitSyncRec == [stage : {"none", "fetched", "reset"}, commit : 0..Releases]
ListingRec == [commit : 0..Releases, custom : 0..RepoChanges, fresh : BOOLEAN, late : BOOLEAN]
CallRec    == [stage : {"idle", "asked", "answered"}, commit : 0..Releases, late : BOOLEAN]

ShopTypeOK ==
    /\ upstream \in 1..Releases /\ clone \in 0..Releases /\ head \in 0..Releases /\ announced \in 0..Releases
    /\ gitSync \in GitSyncRec
    /\ syncs \in 0..Syncs
    /\ failed \in BOOLEAN /\ negative \in BOOLEAN
    /\ customs \in 1..RepoChanges /\ own \in 1..RepoChanges
    /\ cache \subseteq ListingRec
    /\ listing \in [Listing -> CallRec]

\* A listing that is cached holds what the last announced sync brought, unless
\* GitHub was asked before and answered after it, and what this instance changed
\* of the custom repositories, unless the table could not be read; and the head
\* the watcher has noted is in the clone, unless a sync is under way or failed.
ListingIsCurrent ==
    /\ \A l \in cache :
          /\ l.commit >= announced \/ l.late
          /\ l.custom >= own \/ l.custom = NotRead
    /\ syncs = 0 /\ ~failed => clone >= head
=============================================================================
