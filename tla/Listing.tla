------------------------------ MODULE Listing ------------------------------
(***************************************************************************)
(* Items, their images and auctions until bidding is over                  *)
(* (apps/auctions/service.py, repository.py, tasks.py): sellers create,    *)
(* illustrate and delete items and draft, publish, extend and cancel       *)
(* auctions, admins review items and cancel auctions, and the beat task    *)
(* activates what was scheduled.                                           *)
(*                                                                         *)
(* get_by_id locks the auction row, so that requests on one auction are    *)
(* served in turn; items and images are never locked.  A request that      *)
(* reads one of those and writes later is two steps, and what it read is   *)
(* in req.  All others are one step, taken when they commit.  Bidding and  *)
(* Settlement have the rest of an auction's life in detail; here a bid and *)
(* a settlement are one step each.                                         *)
(***************************************************************************)
EXTENDS Integers, FiniteSets

CONSTANTS
    Item, Auction, Image, None,
    Request,        \* two-step requests served at a time
    SellerOf,       \* the seller of each item and auction
    StartingPrice,  \* the price an item is attached with
    Reserve,        \* reserve prices sellers choose, 0 for none
    MaxImages,      \* images per item (8)
    MaxDuration,    \* settings.max_auction_duration_hours
    Soon,           \* a start this close activates at once (30 s)
    Horizon,        \* bound: the last instant
    MaxChanges,     \* bound: reviews, changes of drafts, extensions, cancellations
    MaxFaults       \* bound: failures of Cloudinary or the database, dead processes

ItemStatus == {"PENDING_REVIEW", "APPROVED", "REJECTED", "IN_AUCTION", "SOLD"}
Live == {"SCHEDULED", "ACTIVE"}
AuctionStatus == Live \union {"DRAFT", "CANCELLED", "SETTLED",
                              "ENDED_NO_BIDS", "ENDED_RESERVE_NOT_MET"}

ASSUME ListingAssumption ==
    /\ None \notin Item \union Auction \union Image \union ItemStatus \union AuctionStatus
    /\ StartingPrice \in [Item -> Nat]
    /\ Reserve \subseteq Nat
    /\ {MaxImages, MaxDuration, Soon, Horizon, MaxChanges, MaxFaults} \subseteq Nat
    /\ MaxImages > 0
    /\ IsFiniteSet(Request)

VARIABLES
    now,      \* the clock
    item,     \* items.status, None when there is no such row
    image,    \* item_images.item_id, None when there is no such row
    assets,   \* images stored at Cloudinary
    auction,  \* the row, its auction_items (lot) and whether it has a bid
    req,      \* what each two-step request has read
    listed,   \* scheduled auctions the activation task has read
    spent     \* occurrences of each bounded event

images == <<image, assets>>
vars == <<now, item, images, auction, req, listed, spent>>

Time == 0..(Horizon + MaxDuration)
Op == {"idle", "upload", "delete_image", "delete_item",
       "attach", "cancel_admin"}
Event == {"change", "fault"}

NoAuction == [status |-> None, starts |-> 0, ends |-> 0, reserve |-> 0,
              lot |-> {}, bid |-> FALSE]
Idle == [op |-> "idle", auction |-> None, item |-> None, image |-> None, seen |-> {}]

Init ==
    /\ now = 0
    /\ item = [i \in Item |-> None]
    /\ image = [m \in Image |-> None]
    /\ assets = {}
    /\ auction = [a \in Auction |-> NoAuction]
    /\ req = [r \in Request |-> Idle]
    /\ listed = {}
    /\ spent = [e \in Event |-> 0]

Spend(e, bound) ==
    /\ spent[e] < bound
    /\ spent' = [spent EXCEPT ![e] = @ + 1]

\* No open transaction holds the auction's row: of the two-step requests only
\* attach_item_to_auction takes the lock in its first step.
Free(a) == \A r \in Request : req[r].op = "attach" => req[r].auction # a

ImagesOf(i) == {m \in Image : image[m] = i}

Begin(r, op, a, i, m, seen) ==
    /\ req[r] = Idle
    /\ req' = [req EXCEPT ![r] = [op |-> op, auction |-> a, item |-> i,
                                  image |-> m, seen |-> seen]]

Finish(r, op) ==
    /\ req[r].op = op
    /\ req' = [req EXCEPT ![r] = Idle]

-----------------------------------------------------------------------------
(***************************************************************************)
(* Items and images.                                                       *)
(***************************************************************************)

\* One call for each item, in one transaction.
update_item_status(S, status) ==
    item' = [i \in Item |-> IF i \in S THEN status ELSE item[i]]

\* A DRAFT that is approved in the same commit.
create_item(i) ==
    /\ item[i] = None
    /\ update_item_status({i}, "APPROVED")
    /\ UNCHANGED <<now, images, auction, req, listed, spent>>

\* Cloudinary deletes an asset, or the call fails and is only logged.
Destroy(M) ==
    \/ assets' = assets \ M /\ UNCHANGED spent
    \/ M # {} /\ Spend("fault", MaxFaults) /\ UNCHANGED assets

\* Cloudinary stores an asset; a file it refuses changes nothing.
upload_image(m) ==
    /\ image[m] = None /\ m \notin assets
    /\ \A q \in Request : req[q].image # m /\ m \notin req[q].seen
    /\ assets' = assets \union {m}

\* Mutant: the images are not counted.
upload_item_image_uncounted(r, i, m) ==
    /\ item[i] # None
    /\ Begin(r, "upload", None, i, m, {})
    /\ upload_image(m)
    /\ UNCHANGED <<now, item, image, auction, listed, spent>>

\* Count the images and store the asset.
upload_item_image(r, i, m) ==
    /\ item[i] # None
    /\ Cardinality(ImagesOf(i)) < MaxImages
    /\ Begin(r, "upload", None, i, m, {})
    /\ upload_image(m)
    /\ UNCHANGED <<now, item, image, auction, listed, spent>>

\* Mutant: a failed insert leaves the asset behind.
UploadFailsKeepsAsset(r) ==
    /\ Finish(r, "upload") /\ item[req[r].item] = None
    /\ UNCHANGED <<now, item, images, auction, listed, spent>>

\* The item is gone, or the database fails: the asset is deleted again.
UploadFails(r) ==
    /\ Finish(r, "upload")
    /\ \/ item[req[r].item] = None /\ Destroy({req[r].image})
       \/ Spend("fault", MaxFaults) /\ assets' = assets \ {req[r].image}
    /\ UNCHANGED <<now, item, image, auction, listed>>

UploadCommits(r) ==
    /\ Finish(r, "upload")
    /\ item[req[r].item] # None
    /\ image' = [image EXCEPT ![req[r].image] = req[r].item]
    /\ UNCHANGED <<now, item, assets, auction, listed, spent>>

\* The asset goes first, the row when the transaction commits.
delete_item_image(r, m) ==
    /\ image[m] # None
    /\ Begin(r, "delete_image", None, None, m, {})
    /\ Destroy({m})
    /\ UNCHANGED <<now, item, image, auction, listed>>

DeleteImageCommits(r) ==
    /\ Finish(r, "delete_image")
    /\ image' = [image EXCEPT ![req[r].image] = None]
    /\ UNCHANGED <<now, item, assets, auction, listed, spent>>

\* Read the item and its images, and delete their assets.
delete_item(r, i) ==
    /\ item[i] \notin {None, "IN_AUCTION"}
    /\ Begin(r, "delete_item", None, i, None, ImagesOf(i))
    /\ Destroy(ImagesOf(i))
    /\ UNCHANGED <<now, item, image, auction, listed>>

\* No relationship cascades: rows that refer to the item keep it.
Referenced(r) ==
    LET i == req[r].item
    IN  \/ req[r].seen # {} \/ ImagesOf(i) # {}
        \/ \E a \in Auction : i \in auction[a].lot

\* Mutant: the database does not look at auction_items.
DeleteItemCommitsAnyway(r) ==
    /\ Finish(r, "delete_item")
    /\ item' = [item EXCEPT ![req[r].item] = None]
    /\ UNCHANGED <<now, images, auction, listed, spent>>

DeleteItemCommits(r) ==
    /\ Finish(r, "delete_item")
    /\ ~Referenced(r)
    /\ item' = [item EXCEPT ![req[r].item] = None]
    /\ UNCHANGED <<now, images, auction, listed, spent>>

DeleteItemRefused(r) ==
    /\ Finish(r, "delete_item")
    /\ Referenced(r)
    /\ UNCHANGED <<now, item, images, auction, listed, spent>>

\* Whatever the status was.
ReviewItems(S, result) ==
    /\ S # {} /\ \A i \in S : item[i] # None
    /\ Spend("change", MaxChanges)
    /\ item' = [i \in Item |-> IF i \in S THEN result ELSE item[i]]
    /\ UNCHANGED <<now, images, auction, req, listed>>

\* The actions of the admin panel, each in one commit.  Those of the API raise
\* before their commit: they read attributes that a user does not have.
approve_items(S) == ReviewItems(S, "APPROVED")
reject_items(S) == ReviewItems(S, "REJECTED")

-----------------------------------------------------------------------------
(***************************************************************************)
(* Auctions, by their seller.                                              *)
(***************************************************************************)

ValidDuration(s, e) == s < e /\ e <= s + MaxDuration

create_auction(a, s, e, p) ==
    /\ auction[a] = NoAuction
    /\ now <= s /\ ValidDuration(s, e)
    /\ auction' = [auction EXCEPT ![a] = [NoAuction EXCEPT
                      !.status = "DRAFT", !.starts = s, !.ends = e, !.reserve = p]]
    /\ UNCHANGED <<now, item, images, req, listed, spent>>

Draft(a) == Free(a) /\ auction[a].status = "DRAFT"

\* The fields that are given.
Updated(row, s, e, p) == [row EXCEPT !.starts = IF s = None THEN @ ELSE s,
                                     !.ends = IF e = None THEN @ ELSE e,
                                     !.reserve = IF p = None THEN @ ELSE p]

\* The schema checks the duration when both times are given; the database that
\* the auction ends after it starts.
update_auction(a, s, e, p) ==
    /\ Draft(a)
    /\ Spend("change", MaxChanges)
    /\ s # None /\ e # None => ValidDuration(s, e)
    /\ Updated(auction[a], s, e, p).starts < Updated(auction[a], s, e, p).ends
    /\ auction' = [auction EXCEPT ![a] = Updated(@, s, e, p)]
    /\ UNCHANGED <<now, item, images, req, listed>>

\* Lock the auction, compare the prices and read the item's status.
attach_item_to_auction(r, a, i) ==
    /\ Draft(a)
    /\ SellerOf[a] = SellerOf[i]
    /\ auction[a].reserve > 0 => StartingPrice[i] < auction[a].reserve
    /\ item[i] \in {"APPROVED", "PENDING_REVIEW"}
    /\ Begin(r, "attach", a, i, None, {})
    /\ UNCHANGED <<now, item, images, auction, listed, spent>>

\* The item must still exist, and not be in the auction already.
Attachable(r) ==
    item[req[r].item] # None /\ req[r].item \notin auction[req[r].auction].lot

AttachCommits(r) ==
    /\ Finish(r, "attach")
    /\ Attachable(r)
    /\ auction' = [auction EXCEPT ![req[r].auction].lot = @ \union {req[r].item}]
    /\ update_item_status({req[r].item}, "IN_AUCTION")
    /\ UNCHANGED <<now, images, listed, spent>>

AttachRefused(r) ==
    /\ Finish(r, "attach")
    /\ ~Attachable(r)
    /\ UNCHANGED <<now, item, images, auction, listed, spent>>

\* Mutant: the item keeps its status.
detach_item_keeps(a, i) ==
    /\ Draft(a) /\ i \in auction[a].lot
    /\ auction' = [auction EXCEPT ![a].lot = @ \ {i}]
    /\ UNCHANGED <<now, item, images, req, listed, spent>>

detach_item(a, i) ==
    /\ Draft(a) /\ i \in auction[a].lot
    /\ auction' = [auction EXCEPT ![a].lot = @ \ {i}]
    /\ update_item_status({i}, "APPROVED")
    /\ UNCHANGED <<now, images, req, listed, spent>>

SetStatus(a, s) == auction' = [auction EXCEPT ![a].status = s]

\* Mutant: the duration is not validated again.
publish_auction_unchecked(a) ==
    /\ Draft(a) /\ auction[a].lot # {} /\ auction[a].starts >= now
    /\ SetStatus(a, IF auction[a].starts > now + Soon THEN "SCHEDULED" ELSE "ACTIVE")
    /\ UNCHANGED <<now, item, images, req, listed, spent>>

publish_auction(a) ==
    /\ Draft(a)
    /\ auction[a].lot # {}
    /\ auction[a].starts >= now
    /\ auction[a].ends <= auction[a].starts + MaxDuration
    /\ SetStatus(a, IF auction[a].starts > now + Soon THEN "SCHEDULED" ELSE "ACTIVE")
    /\ UNCHANGED <<now, item, images, req, listed, spent>>

extend_auction(a, e) ==
    /\ Free(a) /\ auction[a].status \in Live
    /\ Spend("change", MaxChanges)
    /\ e > now /\ e > auction[a].ends /\ e <= auction[a].starts + MaxDuration
    /\ auction' = [auction EXCEPT ![a].ends = e]
    /\ UNCHANGED <<now, item, images, req, listed>>

\* In any status, while there is no bid.  The lot stays attached.
cancel_auction(a) ==
    /\ Free(a) /\ auction[a].status # None /\ ~auction[a].bid
    /\ Spend("change", MaxChanges)
    /\ SetStatus(a, "CANCELLED")
    /\ update_item_status(auction[a].lot, "APPROVED")
    /\ UNCHANGED <<now, images, req, listed>>

-----------------------------------------------------------------------------
(***************************************************************************)
(* Auctions, by admins, tasks and bidders.                                 *)
(***************************************************************************)

\* The items are read before the auction is locked.  Those that are APPROVED
\* already are not written.
cancel_auction_admin(r, a) ==
    /\ auction[a].status # None
    /\ Spend("change", MaxChanges)
    /\ Begin(r, "cancel_admin", a, None, None,
             {i \in auction[a].lot : item[i] # "APPROVED"})
    /\ UNCHANGED <<now, item, images, auction, listed>>

CancelAdminCommits(r) ==
    /\ Finish(r, "cancel_admin")
    /\ Free(req[r].auction)
    /\ \A i \in req[r].seen : item[i] # None
    /\ SetStatus(req[r].auction, "CANCELLED")
    /\ update_item_status(req[r].seen, "APPROVED")
    /\ UNCHANGED <<now, images, listed, spent>>

CancelAdminRefused(r) ==
    /\ Finish(r, "cancel_admin")
    /\ \E i \in req[r].seen : item[i] = None
    /\ UNCHANGED <<now, item, images, auction, listed, spent>>

\* The process of a request dies, or the database fails: the transaction is
\* rolled back, and what Cloudinary did stays.
RequestDies(r) ==
    /\ req[r] # Idle
    /\ Spend("fault", MaxFaults)
    /\ req' = [req EXCEPT ![r] = Idle]
    /\ UNCHANGED <<now, item, images, auction, listed>>

Scheduled == {a \in Auction : auction[a].status = "SCHEDULED"}

\* Mutant: starts_at is not looked at.
get_scheduled_auctions_all ==
    /\ listed = {} /\ Scheduled # {}
    /\ listed' = Scheduled
    /\ UNCHANGED <<now, item, images, auction, req, spent>>

get_scheduled_auctions ==
    /\ listed = {}
    /\ listed' = {a \in Scheduled : auction[a].starts <= now}
    /\ listed' # {}
    /\ UNCHANGED <<now, item, images, auction, req, spent>>

\* One commit for all that were listed, whatever their status is now.
Activate ==
    /\ listed # {} /\ \A a \in listed : Free(a)
    /\ auction' = [a \in Auction |-> IF a \in listed
                      THEN [auction[a] EXCEPT !.status = "ACTIVE"] ELSE auction[a]]
    /\ listed' = {}
    /\ UNCHANGED <<now, item, images, req, spent>>

ActivationFails ==
    /\ listed # {}
    /\ Spend("fault", MaxFaults)
    /\ listed' = {}
    /\ UNCHANGED <<now, item, images, auction, req>>

PlaceBid(a) ==
    /\ Free(a) /\ auction[a].status = "ACTIVE" /\ now < auction[a].ends
    /\ ~auction[a].bid
    /\ auction' = [auction EXCEPT ![a].bid = TRUE]
    /\ UNCHANGED <<now, item, images, req, listed, spent>>

\* Mutant: the two statuses are swapped.
SettleSwapped(a, result, item_status) ==
    /\ Free(a) /\ auction[a].status = "ACTIVE" /\ auction[a].ends <= now
    /\ SetStatus(a, item_status)
    /\ item' = [i \in Item |-> IF i \in auction[a].lot THEN result ELSE item[i]]
    /\ UNCHANGED <<now, images, req, listed, spent>>

\* The three outcomes of the settlement of an auction that has ended.
Settle(a, result, item_status) ==
    /\ Free(a) /\ auction[a].status = "ACTIVE" /\ auction[a].ends <= now
    /\ SetStatus(a, result)
    /\ item' = [i \in Item |-> IF i \in auction[a].lot THEN item_status ELSE item[i]]
    /\ UNCHANGED <<now, images, req, listed, spent>>

SettleEnded(a) ==
    \/ auction[a].bid /\ Settle(a, "SETTLED", "SOLD")
    \/ auction[a].bid /\ auction[a].reserve > 0
                      /\ Settle(a, "ENDED_RESERVE_NOT_MET", "APPROVED")
    \/ ~auction[a].bid /\ Settle(a, "ENDED_NO_BIDS", "APPROVED")

Tick ==
    /\ now < Horizon
    /\ now' = now + 1
    /\ UNCHANGED <<item, images, auction, req, listed, spent>>

-----------------------------------------------------------------------------
ItemStep(i) ==
    \/ create_item(i)
    \/ \E r \in Request : delete_item(r, i)
    \/ \E r \in Request, m \in Image : upload_item_image(r, i, m)

DraftStep(a) ==
    \/ \E s \in 0..Horizon, e \in Time, p \in Reserve : create_auction(a, s, e, p)
    \/ \E s \in 0..Horizon \union {None}, e \in Time \union {None},
          p \in Reserve \union {None} :
          update_auction(a, s, e, p)
    \/ \E r \in Request, i \in Item : attach_item_to_auction(r, a, i)
    \/ \E i \in Item : detach_item(a, i)
    \/ publish_auction(a)

LiveStep(a) ==
    \/ \E e \in Time : extend_auction(a, e)
    \/ cancel_auction(a)
    \/ \E r \in Request : cancel_auction_admin(r, a)
    \/ PlaceBid(a) \/ SettleEnded(a)

\* A request that has begun ends: it commits, or an error rolls it back.
End(r) ==
    \/ UploadCommits(r) \/ UploadFails(r) \/ DeleteImageCommits(r)
    \/ DeleteItemCommits(r) \/ DeleteItemRefused(r)
    \/ AttachCommits(r) \/ AttachRefused(r)
    \/ CancelAdminCommits(r) \/ CancelAdminRefused(r)

Next ==
    \/ \E i \in Item : ItemStep(i)
    \/ \E S \in SUBSET Item : approve_items(S) \/ reject_items(S)
    \/ \E a \in Auction : DraftStep(a) \/ LiveStep(a)
    \/ \E r \in Request : \/ End(r) \/ RequestDies(r)
                          \/ \E m \in Image : delete_item_image(r, m)
    \/ get_scheduled_auctions \/ Activate \/ ActivationFails
    \/ Tick

Spec == Init /\ [][Next]_vars

-----------------------------------------------------------------------------
\* What a request may be at: it names the auction and the item that its second
\* step writes.
Work == {w \in [op : Op, auction : Auction \union {None}, item : Item \union {None},
                image : Image \union {None}, seen : SUBSET (Item \union Image)] :
            /\ w.op \in {"attach", "cancel_admin"} => w.auction # None
            /\ w.op \in {"attach", "upload", "delete_item"} => w.item # None}

\* Every variable holds a value of its kind.
TypeOK ==
    /\ now \in 0..Horizon
    /\ item \in [Item -> ItemStatus \union {None}]
    /\ image \in [Image -> Item \union {None}]
    /\ assets \subseteq Image
    /\ auction \in [Auction -> [status : AuctionStatus \union {None}, starts : Nat,
                                ends : Nat, reserve : Nat, lot : SUBSET Item,
                                bid : BOOLEAN]]
    /\ req \in [Request -> Work]
    /\ listed \subseteq Auction
    /\ spent \in [Event -> Nat]

\* Whatever is attached, detached, published, cancelled, activated and deleted
\* at the same time, an auction that is scheduled or open offers an item, and
\* every item of a lot exists.
LiveHasItems ==
    \A a \in Auction :
        /\ auction[a].status \in Live => auction[a].lot # {}
        /\ \A i \in auction[a].lot : item[i] # None

\* No sequence of updates, publications and extensions gives an auction that is
\* scheduled or open more than the longest duration.
DurationCapped ==
    \A a \in Auction : auction[a].status \in Live =>
        auction[a].ends <= auction[a].starts + MaxDuration

\* Nobody can bid on an auction before its start (but for the 30 seconds that
\* publishing allows), although the task activates what it read earlier.
OpensOnTime ==
    \A a \in Auction : auction[a].status = "ACTIVE" => auction[a].starts <= now + Soon

\* An item that is IN_AUCTION, which its seller can neither change nor delete, is
\* in the lot of an auction: it can be freed by detaching it or by a cancellation.
InAuctionIsListed ==
    \A i \in Item : item[i] = "IN_AUCTION" => \E a \in Auction : i \in auction[a].lot

\* "Maximum 8 images per item allowed" is checked before the upload: requests
\* that overlap exceed it, each by one image at most.
ImageLimit ==
    \A i \in Item :
        Cardinality(ImagesOf(i)) < MaxImages + Cardinality(Request)

\* "if this fails, clean up cloudinary": as long as Cloudinary answers and no
\* process dies, an asset is shown by a row or is being uploaded.
NoOrphanAssets ==
    spent["fault"] = 0 =>
        \A m \in assets : image[m] # None \/ \E r \in Request : req[r].image = m

\* "Item cannot be attached to multiple auctions simultaneously": while a seller may
\* still offer it, an item is in the lot of one auction only.
OneAuctionAtATime ==
    \A i \in Item, a, b \in Auction :
        /\ auction[a].status \in Live \union {"DRAFT"} /\ i \in auction[a].lot
        /\ auction[b].status \in Live \union {"DRAFT"} /\ i \in auction[b].lot
        => a = b
=============================================================================
