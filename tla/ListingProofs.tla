--------------------------- MODULE ListingProofs ---------------------------
(***************************************************************************)
(* Theorems of Listing, for any items, auctions, images and requests, any  *)
(* clock and any number of changes and faults.                             *)
(***************************************************************************)
EXTENDS Listing, TLAPS, FiniteSetTheorems

Row == [status : AuctionStatus \union {None}, starts : Nat, ends : Nat,
        reserve : Nat, lot : SUBSET Item, bid : BOOLEAN]

\* A row that was published, by its lot and its times.
Opened(row) == row.lot # {} /\ row.ends <= row.starts + MaxDuration

\* What the activation task has read was published, and its start has come; its
\* status may have changed since, but not to one in which the row is edited.
ListedOpened ==
    \A a \in listed : /\ Opened(auction[a])
                      /\ auction[a].starts <= now
                      /\ auction[a].status \notin {"DRAFT", None}

LiveOpened == \A a \in Auction : auction[a].status \in Live => Opened(auction[a])

LotsExist == \A a \in Auction : \A i \in auction[a].lot : item[i] # None

SInv ==
    /\ LotsExist
    /\ LiveOpened
    /\ ListedOpened
    /\ OpensOnTime
    /\ InAuctionIsListed

IInv == TypeOK /\ SInv

-----------------------------------------------------------------------------
LEMMA Bounds ==
    /\ MaxDuration \in Nat /\ Soon \in Nat /\ Horizon \in Nat
    /\ MaxChanges \in Nat /\ MaxFaults \in Nat
    /\ Reserve \subseteq Nat
<1>1. {MaxImages, MaxDuration, Soon, Horizon, MaxChanges, MaxFaults} \subseteq Nat
  BY Zenon, ListingAssumption
<1>2. Reserve \subseteq Nat
  BY Zenon, ListingAssumption
<1> QED
  BY <1>1, <1>2

LEMMA NoneIsNone ==
    /\ None \notin Item /\ None \notin Auction /\ None \notin Image
    /\ None \notin Live /\ None \notin {"DRAFT", "CANCELLED", "ACTIVE", "IN_AUCTION", "APPROVED"}
<1>1. None \notin Item \union Auction \union Image \union ItemStatus \union AuctionStatus
  BY Zenon, ListingAssumption
<1> QED
  BY <1>1 DEF AuctionStatus, ItemStatus, Live

LEMMA Types == TypeOK => /\ now \in Nat
                         /\ auction \in [Auction -> Row]
                         /\ req \in [Request -> Work]
                         /\ item \in [Item -> ItemStatus \union {None}]
  BY Bounds DEF TypeOK, Row

LEMMA InitInv == Init => IInv
<1> SUFFICES ASSUME Init PROVE IInv
  OBVIOUS
<1>1. NoAuction \in Row /\ Idle \in Work
  BY DEF NoAuction, Row, Idle, Work, Op
<1>2. TypeOK
  <2>1. now \in 0..Horizon /\ listed \subseteq Auction /\ spent \in [Event -> Nat]
    BY Bounds DEF Init
  <2>2. auction \in [Auction -> Row] /\ req \in [Request -> Work]
    BY <1>1 DEF Init
  <2>3. item \in [Item -> ItemStatus \union {None}] /\ image \in [Image -> Item \union {None}]
        /\ assets \subseteq Image
    BY DEF Init
  <2> QED
    BY <2>1, <2>2, <2>3 DEF TypeOK, Row
<1>3. \A a \in Auction : auction[a].status = None /\ auction[a].lot = {}
  BY DEF Init, NoAuction
<1>4. \A i \in Item : item[i] = None
  BY DEF Init
<1>5. listed = {}
  BY DEF Init
<1> QED
  BY NoneIsNone, <1>2, <1>3, <1>4, <1>5 DEF IInv, SInv, LotsExist, LiveOpened,
     ListedOpened, OpensOnTime, InAuctionIsListed

-----------------------------------------------------------------------------
(***************************************************************************)
(* Pieces of the steps.                                                    *)
(***************************************************************************)

LEMMA BeginType ==
    ASSUME TypeOK, NEW r \in Request, NEW op \in Op, NEW a \in Auction \union {None},
           NEW i \in Item \union {None}, NEW m \in Image \union {None},
           NEW seen \in SUBSET (Item \union Image), Begin(r, op, a, i, m, seen),
           op \in {"attach", "cancel_admin"} => a # None,
           op \in {"attach", "upload", "delete_item"} => i # None
    PROVE  req' \in [Request -> Work]
<1>1. [op |-> op, auction |-> a, item |-> i, image |-> m, seen |-> seen] \in Work
  BY DEF Work
<1> QED
  BY <1>1, Types DEF Begin

LEMMA FinishType ==
    ASSUME TypeOK, NEW r \in Request, NEW op, Finish(r, op)
    PROVE  req' \in [Request -> Work] /\ req[r] \in Work /\ req[r].op = op
<1>1. Idle \in Work
  BY DEF Idle, Work, Op
<1> QED
  BY <1>1, Types DEF Finish

LEMMA SpendType ==
    ASSUME TypeOK, NEW e \in Event, NEW bound, Spend(e, bound)
    PROVE  spent' \in [Event -> Nat]
  BY DEF TypeOK, Spend

LEMMA DestroyType ==
    ASSUME TypeOK, NEW M \in SUBSET Image, Destroy(M)
    PROVE  assets' \subseteq Image /\ spent' \in [Event -> Nat]
  BY SpendType DEF TypeOK, Destroy, Event

\* The safety part speaks of the clock, the items, the auctions and what the
\* task has read.
LEMMA Same ==
    ASSUME SInv, UNCHANGED <<now, item, auction, listed>>
    PROVE  SInv'
  BY DEF SInv, LotsExist, LiveOpened, ListedOpened, OpensOnTime,
         InAuctionIsListed, Opened

\* Items change: none of a lot disappears, and none enters IN_AUCTION.
LEMMA ItemsOnly ==
    ASSUME SInv, UNCHANGED <<now, auction, listed>>,
           \A a \in Auction : \A i \in auction[a].lot : item'[i] # None,
           \A i \in Item : item'[i] = "IN_AUCTION" => item[i] = "IN_AUCTION"
    PROVE  SInv'
  BY DEF SInv, LotsExist, LiveOpened, ListedOpened, OpensOnTime,
         InAuctionIsListed, Opened

\* One auction changes, but not its lot.
LEMMA RowOnly ==
    ASSUME TypeOK, SInv, NEW a \in Auction, NEW row \in Row,
           auction' = [auction EXCEPT ![a] = row],
           UNCHANGED <<now, listed>>,
           row.lot = auction[a].lot,
           row.status \in Live => Opened(row),
           row.status = "ACTIVE" => row.starts <= now + Soon,
           a \in listed => /\ Opened(row) /\ row.starts <= now
                          /\ row.status \notin {"DRAFT", None},
           \A i \in Item : item[i] # None => item'[i] # None,
           \A i \in Item : item'[i] = "IN_AUCTION" => item[i] = "IN_AUCTION"
    PROVE  SInv' /\ auction' \in [Auction -> Row]
<1>1. auction \in [Auction -> Row] /\ auction' \in [Auction -> Row]
  BY Types
<1>2. auction'[a] = row /\ \A b \in Auction \ {a} : auction'[b] = auction[b]
  BY <1>1
<1>3. \A b \in Auction : auction'[b].lot = auction[b].lot /\ auction[b].lot \subseteq Item
  BY <1>1, <1>2 DEF Row
<1>4. LotsExist' /\ InAuctionIsListed'
  BY <1>2, <1>3 DEF SInv, LotsExist, InAuctionIsListed
<1>5. LiveOpened' /\ OpensOnTime'
  BY <1>2 DEF SInv, LiveOpened, OpensOnTime, Opened
<1>6. ListedOpened'
  BY <1>2 DEF SInv, ListedOpened, Opened, TypeOK
<1> QED
  BY <1>1, <1>4, <1>5, <1>6 DEF SInv

\* Steps that touch requests, images and counters only.
LEMMA Quiet ==
    ASSUME IInv, UNCHANGED <<now, item, auction, listed>>,
           req' \in [Request -> Work], image' \in [Image -> Item \union {None}],
           assets' \subseteq Image, spent' \in [Event -> Nat]
    PROVE  IInv'
<1>1. TypeOK'
  BY DEF IInv, TypeOK
<1>2. SInv'
  BY Same DEF IInv
<1> QED
  BY <1>1, <1>2 DEF IInv

-----------------------------------------------------------------------------
(***************************************************************************)
(* Images.                                                                 *)
(***************************************************************************)

LEMMA UploadInv ==
    ASSUME IInv, NEW r \in Request,
           \/ \E i \in Item, m \in Image : upload_item_image(r, i, m)
           \/ UploadFails(r) \/ UploadCommits(r)
    PROVE  IInv'
<1> USE DEF IInv
<1>1. ASSUME NEW i \in Item, NEW m \in Image, upload_item_image(r, i, m)
      PROVE  IInv'
  <2>1. req' \in [Request -> Work]
    BY <1>1, NoneIsNone, BeginType DEF upload_item_image, upload_image, Op
  <2>2. image' \in [Image -> Item \union {None}] /\ assets' \subseteq Image /\ spent' \in [Event -> Nat]
    BY <1>1 DEF upload_item_image, upload_image, TypeOK
  <2> QED
    BY <1>1, <2>1, <2>2, Quiet DEF upload_item_image, upload_image
<1>2. ASSUME UploadFails(r)
      PROVE  IInv'
  <2>1. req' \in [Request -> Work]
    BY <1>2, FinishType DEF UploadFails
  <2>2. image' \in [Image -> Item \union {None}]
    BY <1>2 DEF UploadFails, TypeOK
  <2>3. CASE Destroy({req[r].image})
    <3>1. assets' \subseteq assets /\ spent' \in [Event -> Nat]
      BY <2>3, SpendType DEF Destroy, TypeOK, Event
    <3> QED
      BY <1>2, <2>1, <2>2, <3>1, Quiet DEF UploadFails, TypeOK
  <2>4. CASE Spend("fault", MaxFaults) /\ assets' = assets \ {req[r].image}
    <3>1. spent' \in [Event -> Nat]
      BY <2>4, SpendType DEF Event
    <3> QED
      BY <1>2, <2>1, <2>2, <2>4, <3>1, Quiet DEF UploadFails, TypeOK
  <2> QED
    BY <1>2, <2>3, <2>4 DEF UploadFails
<1>3. ASSUME UploadCommits(r)
      PROVE  IInv'
  <2>1. req' \in [Request -> Work] /\ req[r] \in Work
    BY <1>3, FinishType DEF UploadCommits
  <2>2. image' \in [Image -> Item \union {None}]
    BY <1>3, <2>1 DEF UploadCommits, TypeOK, Work
  <2>3. assets' \subseteq Image /\ spent' \in [Event -> Nat]
    BY <1>3 DEF UploadCommits, TypeOK
  <2> QED
    BY <1>3, <2>1, <2>2, <2>3, Quiet DEF UploadCommits
<1> QED
  BY <1>1, <1>2, <1>3

LEMMA DeleteImageInv ==
    ASSUME IInv, NEW r \in Request,
           (\E m \in Image : delete_item_image(r, m)) \/ DeleteImageCommits(r)
    PROVE  IInv'
<1> USE DEF IInv
<1>1. ASSUME NEW m \in Image, delete_item_image(r, m)
      PROVE  IInv'
  <2>1. req' \in [Request -> Work]
    BY <1>1, BeginType DEF delete_item_image, Op
  <2>2. assets' \subseteq Image /\ spent' \in [Event -> Nat]
    BY <1>1, DestroyType DEF delete_item_image
  <2> QED
    BY <1>1, <2>1, <2>2, Quiet DEF delete_item_image, TypeOK
<1>2. ASSUME DeleteImageCommits(r)
      PROVE  IInv'
  <2>1. req' \in [Request -> Work]
    BY <1>2, FinishType DEF DeleteImageCommits
  <2>2. image' \in [Image -> Item \union {None}]
    BY <1>2 DEF DeleteImageCommits, TypeOK
  <2> QED
    BY <1>2, <2>1, <2>2, Quiet DEF DeleteImageCommits, TypeOK
<1> QED
  BY <1>1, <1>2

-----------------------------------------------------------------------------
(***************************************************************************)
(* Requests that only read, or are refused.                                *)
(***************************************************************************)

LEMMA ReadInv ==
    ASSUME IInv, NEW r \in Request,
           \/ \E i \in Item : delete_item(r, i)
           \/ \E a \in Auction, i \in Item : attach_item_to_auction(r, a, i)
           \/ \E a \in Auction : cancel_auction_admin(r, a)
    PROVE  IInv'
<1> USE DEF IInv
<1>1. ASSUME NEW i \in Item, delete_item(r, i)
      PROVE  IInv'
  <2>1. ImagesOf(i) \in SUBSET Image
    BY DEF ImagesOf
  <2>2. req' \in [Request -> Work]
    BY <1>1, <2>1, NoneIsNone, BeginType DEF delete_item, Op
  <2>3. assets' \subseteq Image /\ spent' \in [Event -> Nat]
    BY <1>1, <2>1, DestroyType DEF delete_item
  <2> QED
    BY <1>1, <2>2, <2>3, Quiet DEF delete_item, TypeOK
<1>2. ASSUME NEW a \in Auction, NEW i \in Item, attach_item_to_auction(r, a, i)
      PROVE  IInv'
  <2>1. req' \in [Request -> Work]
    BY <1>2, NoneIsNone, BeginType DEF attach_item_to_auction, Op
  <2> QED
    BY <1>2, <2>1, Quiet DEF attach_item_to_auction, TypeOK, images
<1>3. ASSUME NEW a \in Auction, cancel_auction_admin(r, a)
      PROVE  IInv'
  <2>1. {i \in auction[a].lot : item[i] # "APPROVED"} \in SUBSET (Item \union Image)
    BY Types DEF Row
  <2>2. req' \in [Request -> Work]
    BY <1>3, <2>1, NoneIsNone, BeginType DEF cancel_auction_admin, Op
  <2>3. spent' \in [Event -> Nat]
    BY <1>3, SpendType DEF cancel_auction_admin, Event
  <2> QED
    BY <1>3, <2>2, <2>3, Quiet DEF cancel_auction_admin, TypeOK, images
<1> QED
  BY <1>1, <1>2, <1>3

LEMMA RefusedInv ==
    ASSUME IInv, NEW r \in Request,
           \/ DeleteItemRefused(r) \/ AttachRefused(r) \/ CancelAdminRefused(r)
           \/ RequestDies(r)
    PROVE  IInv'
<1> USE DEF IInv
<1>1. req' \in [Request -> Work]
  <2>1. Idle \in Work
    BY DEF Idle, Work, Op
  <2> QED
    BY <2>1, FinishType, Types DEF DeleteItemRefused, AttachRefused, CancelAdminRefused, RequestDies
<1>2. spent' \in [Event -> Nat]
  BY SpendType DEF DeleteItemRefused, AttachRefused, CancelAdminRefused, RequestDies, Event, TypeOK
<1> QED
  BY <1>1, <1>2, Quiet DEF DeleteItemRefused, AttachRefused, CancelAdminRefused, RequestDies,
     TypeOK, images

-----------------------------------------------------------------------------
(***************************************************************************)
(* Items.                                                                  *)
(***************************************************************************)

LEMMA ItemInv ==
    ASSUME IInv, NEW i \in Item, create_item(i)
    PROVE  IInv'
<1> USE DEF IInv
<1>1. item' \in [Item -> ItemStatus \union {None}]
  BY Types DEF update_item_status, create_item, ItemStatus
<1>2. TypeOK'
  BY <1>1 DEF create_item, TypeOK, images
<1>3. \A j \in Item : item'[j] = item[j] \/ (item[j] = None /\ item'[j] = "APPROVED")
  BY Types DEF update_item_status, create_item
<1>4. \A a \in Auction : auction[a].lot \subseteq Item
  BY Types DEF Row
<1>5. SInv'
  <2>1. \A a \in Auction : \A j \in auction[a].lot : item'[j] # None
    BY <1>3, <1>4 DEF SInv, LotsExist
  <2> QED
    BY <1>3, <2>1, ItemsOnly DEF create_item
<1> QED
  BY <1>2, <1>5

\* The item goes: no lot refers to it.
LEMMA DeleteItemInv ==
    ASSUME IInv, NEW r \in Request, DeleteItemCommits(r)
    PROVE  IInv'
<1> USE DEF IInv
<1>1. req' \in [Request -> Work]
  BY FinishType DEF DeleteItemCommits
<1>2. item' \in [Item -> ItemStatus \union {None}]
  BY Types DEF DeleteItemCommits
<1>3. TypeOK'
  BY <1>1, <1>2 DEF DeleteItemCommits, TypeOK, images
<1>4. \A j \in Item : item'[j] = item[j] \/ (j = req[r].item /\ item'[j] = None)
  BY Types DEF DeleteItemCommits
<1>5. \A a \in Auction : req[r].item \notin auction[a].lot /\ auction[a].lot \subseteq Item
  BY Types DEF DeleteItemCommits, Referenced, Row
<1>6. SInv'
  <2>1. \A a \in Auction : \A j \in auction[a].lot : item'[j] # None
    BY <1>4, <1>5 DEF SInv, LotsExist
  <2> QED
    BY <1>4, <2>1, NoneIsNone, ItemsOnly DEF DeleteItemCommits
<1> QED
  BY <1>3, <1>6

LEMMA ReviewInv ==
    ASSUME IInv, NEW S \in SUBSET Item, NEW result \in {"APPROVED", "REJECTED"},
           ReviewItems(S, result)
    PROVE  IInv'
<1> USE DEF IInv
<1>1. item' \in [Item -> ItemStatus \union {None}]
  BY Types DEF ReviewItems, ItemStatus
<1>2. spent' \in [Event -> Nat]
  BY SpendType DEF ReviewItems, Event
<1>3. TypeOK'
  BY <1>1, <1>2 DEF ReviewItems, TypeOK, images
<1>4. None \notin {"APPROVED", "REJECTED"}
  <2>1. None \notin ItemStatus
    BY Zenon, ListingAssumption
  <2> QED
    BY <2>1 DEF ItemStatus
<1>5. \A j \in Item : item'[j] = item[j] \/ item'[j] = result
  BY DEF ReviewItems
<1>6. \A a \in Auction : auction[a].lot \subseteq Item
  BY Types DEF Row
<1>7. \A a \in Auction : \A j \in auction[a].lot : item'[j] # None
  BY <1>4, <1>5, <1>6 DEF SInv, LotsExist
<1>8. SInv'
  BY <1>5, <1>7, ItemsOnly DEF ReviewItems
<1> QED
  BY <1>3, <1>8

-----------------------------------------------------------------------------
(***************************************************************************)
(* Auctions.                                                               *)
(***************************************************************************)

\* One auction changes, with the lot it had: what is left to say of the types.
LEMMA RowStep ==
    ASSUME IInv, SInv', auction' \in [Auction -> Row],
           item' \in [Item -> ItemStatus \union {None}],
           req' \in [Request -> Work], spent' \in [Event -> Nat],
           UNCHANGED <<now, images, listed>>
    PROVE  IInv'
  BY DEF IInv, TypeOK, images, Row

LEMMA CreateInv ==
    ASSUME IInv, NEW a \in Auction, NEW s \in 0..Horizon, NEW e \in Time,
           NEW p \in Reserve, create_auction(a, s, e, p)
    PROVE  IInv'
<1> USE DEF IInv
<1> DEFINE row == [NoAuction EXCEPT !.status = "DRAFT", !.starts = s, !.ends = e, !.reserve = p]
<1>1. s \in Nat /\ e \in Nat /\ p \in Nat
  BY Bounds DEF Time
<1>2. row \in Row /\ row.lot = {} /\ row.status = "DRAFT"
  BY <1>1 DEF NoAuction, Row, AuctionStatus
<1>3. auction[a].lot = {} /\ a \notin listed
  BY DEF create_auction, NoAuction, SInv, ListedOpened
<1>4. auction' = [auction EXCEPT ![a] = row]
  BY DEF create_auction
<1>5. UNCHANGED <<now, item, images, req, listed, spent>>
  BY DEF create_auction
<1>6. "DRAFT" # None /\ "DRAFT" \notin Live /\ "DRAFT" # "ACTIVE"
  BY NoneIsNone DEF Live
<1>7. SInv' /\ auction' \in [Auction -> Row]
  <2> HIDE DEF row
  <2> QED
    BY <1>2, <1>3, <1>4, <1>5, <1>6, RowOnly
<1> QED
  BY <1>5, <1>7, Types, RowStep DEF TypeOK

LEMMA UpdateInv ==
    ASSUME IInv, NEW a \in Auction, NEW s \in 0..Horizon \union {None},
           NEW e \in Time \union {None}, NEW p \in Reserve \union {None},
           update_auction(a, s, e, p)
    PROVE  IInv'
<1> USE DEF IInv
<1> DEFINE row == Updated(auction[a], s, e, p)
<1>1. /\ s # None => s \in Nat
      /\ e # None => e \in Nat
      /\ p # None => p \in Nat
  BY Bounds DEF Time
<1>2. auction[a] \in Row /\ auction[a].status = "DRAFT"
  BY Types DEF update_auction, Draft
<1>3. row \in Row /\ row.lot = auction[a].lot /\ row.status = "DRAFT"
  BY <1>1, <1>2 DEF Row, Updated
<1>4. auction' = [auction EXCEPT ![a] = row] /\ UNCHANGED <<now, item, images, req, listed>>
  BY DEF update_auction
<1>5. a \notin listed
  BY <1>2 DEF SInv, ListedOpened
<1>7. SInv' /\ auction' \in [Auction -> Row]
  <2> HIDE DEF row
  <2> QED
    <3>1. "DRAFT" # None /\ "DRAFT" \notin Live
      BY NoneIsNone DEF Live
    <3> QED
      BY <1>3, <1>4, <1>5, <3>1, RowOnly
<1>6. spent' \in [Event -> Nat]
  BY SpendType DEF update_auction, Event
<1> QED
  BY <1>4, <1>6, <1>7, Types, RowStep

\* The status changes: what the new one requires must hold of the old row.
LEMMA StatusInv ==
    ASSUME IInv, NEW a \in Auction, NEW st \in AuctionStatus, SetStatus(a, st),
           UNCHANGED <<now, images, listed>>,
           st # "DRAFT",
           st \in Live => Opened(auction[a]),
           st = "ACTIVE" => auction[a].starts <= now + Soon,
           item' \in [Item -> ItemStatus \union {None}],
           \A i \in Item : item[i] # None => item'[i] # None,
           \A i \in Item : item'[i] = "IN_AUCTION" => item[i] = "IN_AUCTION",
           req' \in [Request -> Work], spent' \in [Event -> Nat]
    PROVE  IInv'
<1> USE DEF IInv
<1> DEFINE row == [auction[a] EXCEPT !.status = st]
<1>1. None \notin AuctionStatus
  BY Zenon, ListingAssumption
<1>2. auction[a] \in Row
  BY Types
<1>3. /\ row \in Row /\ row.lot = auction[a].lot /\ row.status = st
      /\ row.starts = auction[a].starts /\ row.ends = auction[a].ends
  BY <1>2 DEF Row
<1>4. auction' = [auction EXCEPT ![a] = row]
  BY DEF SetStatus
<1>5. a \in listed => Opened(auction[a]) /\ auction[a].starts <= now
  BY DEF SInv, ListedOpened
<1>6. Opened(auction[a]) => Opened(row)
  BY <1>3 DEF Opened
<1>7. SInv' /\ auction' \in [Auction -> Row]
  <2> HIDE DEF row
  <2> QED
    BY <1>1, <1>3, <1>4, <1>5, <1>6, RowOnly
<1> QED
  BY <1>7, RowStep

LEMMA PublishInv ==
    ASSUME IInv, NEW a \in Auction, publish_auction(a)
    PROVE  IInv'
<1> USE DEF IInv
<1> DEFINE st == IF auction[a].starts > now + Soon THEN "SCHEDULED" ELSE "ACTIVE"
<1>1. auction[a] \in Row /\ now \in Nat
  BY Types
<1>2. st \in AuctionStatus /\ st # "DRAFT" /\ SetStatus(a, st)
  BY DEF publish_auction, AuctionStatus, Live
<1>3. Opened(auction[a])
  BY DEF publish_auction, Opened
<1>4. st = "ACTIVE" => auction[a].starts <= now + Soon
  BY <1>1, Bounds DEF Row
<1> HIDE DEF st
<1> QED
  BY <1>2, <1>3, <1>4, Types, StatusInv DEF publish_auction, TypeOK

LEMMA ExtendInv ==
    ASSUME IInv, NEW a \in Auction, NEW e \in Time, extend_auction(a, e)
    PROVE  IInv'
<1> USE DEF IInv
<1> DEFINE row == [auction[a] EXCEPT !.ends = e]
<1>1. auction[a] \in Row /\ e \in Nat
  BY Types, Bounds DEF Time
<1>2. /\ row \in Row /\ row.lot = auction[a].lot /\ row.status = auction[a].status
      /\ row.starts = auction[a].starts /\ row.ends = e
  BY <1>1 DEF Row
<1>3. /\ auction' = [auction EXCEPT ![a] = row]
      /\ UNCHANGED <<now, item, images, req, listed>>
      /\ auction[a].status \in Live /\ e <= auction[a].starts + MaxDuration
  BY DEF extend_auction
<1>4. Opened(row)
  BY <1>2, <1>3 DEF Opened, SInv, LiveOpened
<1>5. /\ auction[a].status = "ACTIVE" => auction[a].starts <= now + Soon
      /\ a \in listed => auction[a].starts <= now /\ auction[a].status \notin {"DRAFT", None}
  BY DEF SInv, OpensOnTime, ListedOpened
<1>6. SInv' /\ auction' \in [Auction -> Row]
  <2> HIDE DEF row
  <2> QED
    BY <1>2, <1>3, <1>4, <1>5, RowOnly
<1>7. spent' \in [Event -> Nat]
  BY SpendType DEF extend_auction, Event
<1> QED
  BY <1>3, <1>6, <1>7, Types, RowStep

\* Some items become APPROVED, SOLD or whatever an outcome makes of them.
LEMMA Released ==
    ASSUME IInv, NEW S \in SUBSET Item, NEW st \in {"APPROVED", "SOLD"},
           item' = [i \in Item |-> IF i \in S THEN st ELSE item[i]]
    PROVE  /\ item' \in [Item -> ItemStatus \union {None}]
           /\ \A i \in Item : item[i] # None => item'[i] # None
           /\ \A i \in Item : item'[i] = "IN_AUCTION" => item[i] = "IN_AUCTION"
<1>1. None \notin ItemStatus
  BY Zenon, ListingAssumption
<1> QED
  BY <1>1, Types DEF IInv, ItemStatus

LEMMA CancelInv ==
    ASSUME IInv, NEW a \in Auction, cancel_auction(a)
    PROVE  IInv'
<1> USE DEF IInv
<1>1. auction[a].lot \in SUBSET Item
  BY Types DEF Row
<1>2. spent' \in [Event -> Nat]
  BY SpendType DEF cancel_auction, Event
<1>3. "CANCELLED" \in AuctionStatus /\ "CANCELLED" \notin Live
  BY DEF AuctionStatus, Live
<1>4. SetStatus(a, "CANCELLED") /\ UNCHANGED <<now, images, req, listed>>
  BY DEF cancel_auction
<1>5. /\ item' \in [Item -> ItemStatus \union {None}]
      /\ \A i \in Item : item[i] # None => item'[i] # None
      /\ \A i \in Item : item'[i] = "IN_AUCTION" => item[i] = "IN_AUCTION"
  BY <1>1, Released DEF update_item_status, cancel_auction
<1> QED
  BY <1>2, <1>3, <1>4, <1>5, Types, StatusInv

LEMMA CancelAdminInv ==
    ASSUME IInv, NEW r \in Request, CancelAdminCommits(r)
    PROVE  IInv'
<1> USE DEF IInv
<1> DEFINE a == req[r].auction
<1>1. req' \in [Request -> Work]
  BY FinishType DEF CancelAdminCommits
<1>2. "CANCELLED" \in AuctionStatus /\ "CANCELLED" \notin Live
  BY DEF AuctionStatus, Live
<1>3. /\ SetStatus(a, "CANCELLED") /\ UNCHANGED <<now, images, listed, spent>>
      /\ item' = [i \in Item |-> IF i \in req[r].seen \intersect Item THEN "APPROVED" ELSE item[i]]
  BY DEF update_item_status, CancelAdminCommits
<1>4. /\ item' \in [Item -> ItemStatus \union {None}]
      /\ \A i \in Item : item[i] # None => item'[i] # None
      /\ \A i \in Item : item'[i] = "IN_AUCTION" => item[i] = "IN_AUCTION"
  <2> DEFINE S == req[r].seen \intersect Item
  <2>1. S \in SUBSET Item /\ item' = [i \in Item |-> IF i \in S THEN "APPROVED" ELSE item[i]]
    BY <1>3
  <2> HIDE DEF S
  <2> QED
    BY <2>1, Released
<1> HIDE DEF a
<1>5. a \in Auction
  BY FinishType DEF a, CancelAdminCommits, Work
<1> QED
  BY <1>1, <1>2, <1>3, <1>4, <1>5, StatusInv DEF TypeOK

LEMMA SettleInv ==
    ASSUME IInv, NEW a \in Auction, SettleEnded(a)
    PROVE  IInv'
<1> USE DEF IInv
<1>1. auction[a].lot \in SUBSET Item
  BY Types DEF Row
<1>2. PICK result \in {"SETTLED", "ENDED_NO_BIDS", "ENDED_RESERVE_NOT_MET"},
           st \in {"APPROVED", "SOLD"} : Settle(a, result, st)
  BY DEF SettleEnded
<1>3. result \in AuctionStatus /\ result \notin Live /\ result # "DRAFT" /\ result # "ACTIVE"
  BY DEF AuctionStatus, Live
<1>4. SetStatus(a, result) /\ UNCHANGED <<now, images, req, listed, spent>>
  BY <1>2 DEF Settle
<1>5. /\ item' \in [Item -> ItemStatus \union {None}]
      /\ \A i \in Item : item[i] # None => item'[i] # None
      /\ \A i \in Item : item'[i] = "IN_AUCTION" => item[i] = "IN_AUCTION"
  BY <1>1, <1>2, Released DEF Settle
<1> QED
  BY <1>3, <1>4, <1>5, Types, StatusInv DEF TypeOK

LEMMA BidInv ==
    ASSUME IInv, NEW a \in Auction, PlaceBid(a)
    PROVE  IInv'
<1> USE DEF IInv
<1> DEFINE row == [auction[a] EXCEPT !.bid = TRUE]
<1>1. auction[a] \in Row
  BY Types
<1>2. /\ row \in Row /\ row.lot = auction[a].lot /\ row.status = auction[a].status
      /\ row.starts = auction[a].starts /\ row.ends = auction[a].ends
  BY <1>1 DEF Row
<1>3. /\ auction' = [auction EXCEPT ![a] = row]
      /\ UNCHANGED <<now, item, images, req, listed, spent>>
      /\ auction[a].status = "ACTIVE"
  BY DEF PlaceBid
<1>4. /\ auction[a].status \in Live => Opened(auction[a])
      /\ auction[a].status = "ACTIVE" => auction[a].starts <= now + Soon
      /\ a \in listed => /\ Opened(auction[a]) /\ auction[a].starts <= now
                         /\ auction[a].status \notin {"DRAFT", None}
  BY DEF SInv, LiveOpened, OpensOnTime, ListedOpened
<1>5. Opened(auction[a]) => Opened(row)
  BY <1>2 DEF Opened
<1>6. SInv' /\ auction' \in [Auction -> Row]
  <2> HIDE DEF row
  <2> QED
    BY <1>2, <1>3, <1>4, <1>5, RowOnly
<1> QED
  BY <1>3, <1>6, Types, RowStep DEF TypeOK

\* The item enters IN_AUCTION and the lot in one commit.
LEMMA AttachInv ==
    ASSUME IInv, NEW r \in Request, AttachCommits(r)
    PROVE  IInv'
<1> USE DEF IInv
<1> DEFINE a == req[r].auction
           i == req[r].item
           row == [auction[a] EXCEPT !.lot = @ \union {i}]
<1>1. a \in Auction /\ i \in Item /\ req' \in [Request -> Work]
  BY FinishType DEF AttachCommits, Work
<1>2. /\ auction' = [auction EXCEPT ![a] = row] /\ item[i] # None
      /\ item' = [j \in Item |-> IF j = i THEN "IN_AUCTION" ELSE item[j]]
      /\ UNCHANGED <<now, images, listed, spent>>
  BY DEF update_item_status, AttachCommits, Attachable
<1>3. /\ row \in Row /\ row.lot = auction[a].lot \union {i} /\ row.status = auction[a].status
      /\ row.starts = auction[a].starts /\ row.ends = auction[a].ends
  BY <1>1, Types DEF Row
<1> HIDE DEF a, i, row
<1>4. auction' \in [Auction -> Row] /\ item' \in [Item -> ItemStatus \union {None}]
  BY <1>1, <1>2, <1>3, Types DEF ItemStatus
<1>5. /\ auction'[a] = row /\ \A b \in Auction \ {a} : auction'[b] = auction[b]
      /\ item'[i] = "IN_AUCTION" /\ \A j \in Item \ {i} : item'[j] = item[j]
      /\ \A b \in Auction : auction[b].lot \subseteq Item
  BY <1>1, <1>2, <1>4, Types DEF Row
<1>6. LotsExist' /\ InAuctionIsListed'
  BY <1>1, <1>3, <1>5, NoneIsNone DEF SInv, LotsExist, InAuctionIsListed
<1>7. LiveOpened' /\ OpensOnTime' /\ ListedOpened'
  BY <1>1, <1>2, <1>3, <1>5 DEF SInv, LiveOpened, OpensOnTime, ListedOpened, Opened, TypeOK
<1>8. TypeOK'
  BY <1>1, <1>2, <1>4 DEF TypeOK, images, Row
<1> QED
  BY <1>6, <1>7, <1>8 DEF SInv

\* The item leaves the lot of a draft and IN_AUCTION in one commit.
LEMMA DetachInv ==
    ASSUME IInv, NEW a \in Auction, NEW i \in Item, detach_item(a, i)
    PROVE  IInv'
<1> USE DEF IInv
<1> DEFINE row == [auction[a] EXCEPT !.lot = @ \ {i}]
<1>1. /\ auction' = [auction EXCEPT ![a] = row]
      /\ item' = [j \in Item |-> IF j = i THEN "APPROVED" ELSE item[j]]
      /\ UNCHANGED <<now, images, req, listed, spent>> /\ auction[a].status = "DRAFT"
  BY DEF update_item_status, detach_item, Draft
<1>2. row \in Row /\ row.lot = auction[a].lot \ {i} /\ row.status = "DRAFT"
  BY <1>1, Types DEF Row
<1> HIDE DEF row
<1>3. auction' \in [Auction -> Row] /\ item' \in [Item -> ItemStatus \union {None}]
  BY <1>1, <1>2, Types DEF ItemStatus
<1>4. /\ auction'[a] = row /\ \A b \in Auction \ {a} : auction'[b] = auction[b]
      /\ item'[i] = "APPROVED" /\ \A j \in Item \ {i} : item'[j] = item[j]
      /\ \A b \in Auction : auction[b].lot \subseteq Item
  BY <1>1, <1>3, Types DEF Row
<1>5. \A b \in Auction : /\ auction'[b].lot \subseteq auction[b].lot
                         /\ \A j \in Item \ {i} : j \in auction[b].lot => j \in auction'[b].lot
  BY <1>2, <1>4
<1>6. LotsExist'
  <2>1. ASSUME NEW b \in Auction, NEW j \in auction'[b].lot
        PROVE  item'[j] # None
    <3>1. j \in auction[b].lot /\ j \in Item /\ item[j] # None
      BY <1>4, <1>5, <2>1 DEF SInv, LotsExist
    <3> QED
      BY <1>4, <3>1, NoneIsNone
  <2> QED
    BY <2>1 DEF LotsExist
<1>7. InAuctionIsListed'
  BY <1>4, <1>5 DEF SInv, InAuctionIsListed
<1>8. LiveOpened' /\ OpensOnTime' /\ ListedOpened'
  <2>1. "DRAFT" \notin Live /\ "DRAFT" # "ACTIVE" /\ a \notin listed
    BY <1>1 DEF Live, SInv, ListedOpened
  <2> QED
    BY <1>1, <1>2, <1>4, <2>1 DEF SInv, LiveOpened, OpensOnTime, ListedOpened, Opened, TypeOK
<1>9. TypeOK'
  BY <1>1, <1>3, Types DEF TypeOK, images, Row
<1> QED
  BY <1>6, <1>7, <1>8, <1>9 DEF SInv

-----------------------------------------------------------------------------
(***************************************************************************)
(* The activation task and the clock.                                      *)
(***************************************************************************)

LEMMA ActivationInv ==
    ASSUME IInv, get_scheduled_auctions \/ Activate \/ ActivationFails
    PROVE  IInv'
<1> USE DEF IInv
<1>1. CASE get_scheduled_auctions
  <2>1. /\ listed' = {a \in Scheduled : auction[a].starts <= now}
        /\ UNCHANGED <<now, item, images, auction, req, spent>>
    BY <1>1 DEF get_scheduled_auctions
  <2>2. TypeOK'
    BY <2>1, Types DEF TypeOK, images, Row, Scheduled
  <2>3. ListedOpened'
    <3>1. ASSUME NEW a \in listed'
          PROVE  /\ Opened(auction[a]) /\ auction[a].starts <= now
                 /\ auction[a].status \notin {"DRAFT", None}
      <4>1. a \in Auction /\ auction[a].status = "SCHEDULED" /\ auction[a].starts <= now
        BY <2>1, <3>1 DEF Scheduled
      <4>2. "SCHEDULED" \in Live /\ "SCHEDULED" # "DRAFT"
        BY DEF Live
      <4> QED
        BY <4>1, <4>2, NoneIsNone DEF SInv, LiveOpened
    <3> QED
      BY <2>1, <3>1 DEF ListedOpened, Opened
  <2> QED
    BY <2>1, <2>2, <2>3 DEF SInv, LotsExist, LiveOpened, OpensOnTime, InAuctionIsListed, Opened
<1>2. CASE Activate
  <2>1. /\ listed' = {} /\ UNCHANGED <<now, item, images, req, spent>>
        /\ auction' = [a \in Auction |-> IF a \in listed
                          THEN [auction[a] EXCEPT !.status = "ACTIVE"] ELSE auction[a]]
    BY <1>2 DEF Activate
  <2>2. "ACTIVE" \in AuctionStatus
    BY DEF AuctionStatus, Live
  <2>3. ASSUME NEW a \in Auction
        PROVE  /\ auction'[a] \in Row /\ auction'[a].lot = auction[a].lot
               /\ auction'[a].starts = auction[a].starts /\ auction'[a].ends = auction[a].ends
               /\ a \in listed => auction'[a].status = "ACTIVE"
               /\ a \notin listed => auction'[a] = auction[a]
    <3>1. auction[a] \in Row
      BY Types
    <3> QED
      BY <2>1, <2>2, <3>1 DEF Row
  <2>4. auction' \in [Auction -> Row]
    BY <2>1, <2>3
  <2>5. TypeOK'
    BY <2>1, <2>4, Types DEF TypeOK, images, Row
  <2>6. LotsExist' /\ InAuctionIsListed'
    BY <2>1, <2>3 DEF SInv, LotsExist, InAuctionIsListed
  <2>7. LiveOpened'
    BY <2>3 DEF SInv, LiveOpened, ListedOpened, Opened
  <2>8. OpensOnTime'
    <3>1. ASSUME NEW a \in Auction, auction'[a].status = "ACTIVE"
          PROVE  auction'[a].starts <= now' + Soon
      <4>1. CASE a \in listed
        <5>1. auction[a].starts <= now /\ auction[a] \in Row /\ now \in Nat
          BY <4>1, Types DEF SInv, ListedOpened
        <5> QED
          BY <2>1, <2>3, <5>1, Bounds DEF Row
      <4>2. CASE a \notin listed
        BY <2>1, <2>3, <3>1, <4>2 DEF SInv, OpensOnTime
      <4> QED
        BY <4>1, <4>2
    <3> QED
      BY <3>1 DEF OpensOnTime
  <2>9. ListedOpened'
    BY <2>1 DEF ListedOpened
  <2> QED
    BY <2>5, <2>6, <2>7, <2>8, <2>9 DEF SInv
<1>3. CASE ActivationFails
  <2>1. spent' \in [Event -> Nat]
    BY <1>3, SpendType DEF ActivationFails, Event
  <2>2. listed' = {} /\ UNCHANGED <<now, item, images, auction, req>>
    BY <1>3 DEF ActivationFails
  <2>3. TypeOK'
    BY <2>1, <2>2, Types DEF TypeOK, images, Row
  <2> QED
    BY <2>2, <2>3 DEF SInv, LotsExist, LiveOpened, ListedOpened, OpensOnTime, InAuctionIsListed, Opened
<1> QED
  BY <1>1, <1>2, <1>3

LEMMA TickInv ==
    ASSUME IInv, Tick
    PROVE  IInv'
<1> USE DEF IInv
<1>1. /\ now' = now + 1 /\ now \in Nat /\ now' \in 0..Horizon
      /\ UNCHANGED <<item, images, auction, req, listed, spent>>
  BY Bounds DEF Tick, TypeOK
<1>2. TypeOK'
  BY <1>1 DEF TypeOK, images
<1>3. \A a \in Auction : auction[a].starts \in Nat
  BY Types DEF Row
<1>4. OpensOnTime' /\ ListedOpened'
  BY <1>1, <1>3, Bounds DEF SInv, OpensOnTime, ListedOpened, Opened, TypeOK
<1>5. LotsExist' /\ LiveOpened' /\ InAuctionIsListed'
  BY <1>1 DEF SInv, LotsExist, LiveOpened, InAuctionIsListed, Opened
<1> QED
  BY <1>2, <1>4, <1>5 DEF SInv

-----------------------------------------------------------------------------
LEMMA NextInv == IInv /\ [Next]_vars => IInv'
<1> SUFFICES ASSUME IInv, [Next]_vars PROVE IInv'
  OBVIOUS
<1>1. CASE UNCHANGED vars
  <2>1. UNCHANGED <<now, item, images, auction, req, listed, spent>>
    BY <1>1 DEF vars
  <2> QED
    BY <2>1, Quiet, Types DEF IInv, TypeOK, images
<1>2. ASSUME NEW i \in Item, ItemStep(i)
      PROVE  IInv'
  BY <1>2, ItemInv, ReadInv, UploadInv DEF ItemStep
<1>3. ASSUME NEW S \in SUBSET Item, approve_items(S) \/ reject_items(S)
      PROVE  IInv'
  BY <1>3, ReviewInv DEF approve_items, reject_items
<1>4. ASSUME NEW a \in Auction, DraftStep(a)
      PROVE  IInv'
  BY <1>4, CreateInv, UpdateInv, ReadInv, DetachInv, PublishInv DEF DraftStep
<1>5. ASSUME NEW a \in Auction, LiveStep(a)
      PROVE  IInv'
  BY <1>5, ExtendInv, CancelInv, ReadInv, BidInv, SettleInv DEF LiveStep
<1>6. ASSUME NEW r \in Request, End(r)
      PROVE  IInv'
  BY <1>6, UploadInv, DeleteImageInv, DeleteItemInv, AttachInv, CancelAdminInv, RefusedInv DEF End
<1>7. ASSUME NEW r \in Request,
             RequestDies(r) \/ \E m \in Image : delete_item_image(r, m)
      PROVE  IInv'
  BY <1>7, RefusedInv, DeleteImageInv
<1>8. CASE get_scheduled_auctions \/ Activate \/ ActivationFails \/ Tick
  BY <1>8, ActivationInv, TickInv
<1> QED
  BY <1>1, <1>2, <1>3, <1>4, <1>5, <1>6, <1>7, <1>8 DEF Next

\* The invariant holds in every state.
LEMMA Inductive == Spec => []IInv
  BY InitInv, NextInv, PTL DEF Spec

\* In every state the rows, requests and counters are of their kind.
THEOREM TypeCorrect == Spec => []TypeOK
<1>1. IInv => TypeOK
  BY DEF IInv
<1> QED
  BY <1>1, Inductive, PTL

\* What publish_auction checked stays true of an auction that is scheduled or
\* open, for any number of requests, items and auctions: it has an item, and
\* delete_item takes no item from a lot.
THEOREM LotsAreKept == Spec => []LiveHasItems
<1>1. IInv => LiveHasItems
  BY DEF IInv, SInv, LotsExist, LiveOpened, Opened, LiveHasItems
<1> QED
  BY <1>1, Inductive, PTL

\* No order of update_auction, publish_auction and extend_auction gives a longer
\* auction than the settings allow.
THEOREM NeverTooLong == Spec => []DurationCapped
<1>1. IInv => DurationCapped
  BY DEF IInv, SInv, LiveOpened, Opened, DurationCapped
<1> QED
  BY <1>1, Inductive, PTL

\* activate_scheduled_auctions opens no auction before its start, also when it
\* activates one that was cancelled after it was read.
THEOREM NeverTooEarly == Spec => []OpensOnTime
<1>1. IInv => OpensOnTime
  BY DEF IInv, SInv
<1> QED
  BY <1>1, Inductive, PTL

\* update_item and delete_item are refused for an item IN_AUCTION: there is
\* always an auction that it is in.
THEOREM NeverStranded == Spec => []InAuctionIsListed
<1>1. IInv => InAuctionIsListed
  BY DEF IInv, SInv
<1> QED
  BY <1>1, Inductive, PTL

-----------------------------------------------------------------------------
(***************************************************************************)
(* The images of an item.  Uploads count before they store, so those that  *)
(* are under way count for the limit as well: each of them found room, and *)
(* no more of them are under way than there are requests.                  *)
(***************************************************************************)

UploadsTo(i) == {r \in Request : req[r].op = "upload" /\ req[r].item = i}

RoomWasThere ==
    \A i \in Item :
        /\ IsFiniteSet(ImagesOf(i))
        /\ Cardinality(ImagesOf(i)) + Cardinality(UploadsTo(i)) <
               MaxImages + Cardinality(Request)

LEMMA RequestFinite ==
    /\ IsFiniteSet(Request) /\ Cardinality(Request) \in Nat
    /\ MaxImages \in Nat /\ MaxImages > 0
<1>1. IsFiniteSet(Request) /\ MaxImages > 0
  BY Zenon, ListingAssumption
<1>2. {MaxImages, MaxDuration, Soon, Horizon, MaxChanges, MaxFaults} \subseteq Nat
  BY Zenon, ListingAssumption
<1> QED
  BY <1>1, <1>2, FS_CardinalityType

LEMMA UploadsBounded ==
    ASSUME NEW i
    PROVE  /\ IsFiniteSet(UploadsTo(i)) /\ Cardinality(UploadsTo(i)) \in Nat
           /\ Cardinality(UploadsTo(i)) <= Cardinality(Request)
<1>1. UploadsTo(i) \in SUBSET Request
  BY DEF UploadsTo
<1> HIDE DEF UploadsTo
<1> QED
  BY <1>1, RequestFinite, FS_Subset, FS_CardinalityType

LEMMA UploadsBoundedAfter ==
    ASSUME NEW i
    PROVE  /\ IsFiniteSet(UploadsTo(i)') /\ Cardinality(UploadsTo(i)') \in Nat
           /\ Cardinality(UploadsTo(i)') <= Cardinality(Request)
<1> DEFINE U == UploadsTo(i)'
<1>1. U \in SUBSET Request
  BY DEF UploadsTo
<1> HIDE DEF U
<1>2. IsFiniteSet(U) /\ Cardinality(U) \in Nat /\ Cardinality(U) <= Cardinality(Request)
  BY <1>1, RequestFinite, FS_Subset, FS_CardinalityType
<1> QED
  BY <1>2 DEF U

\* But for uploads, a step removes images and ends uploads, or does neither.
LEMMA ImageSteps ==
    ASSUME TypeOK, [Next]_vars
    PROVE  \/ \E r \in Request, i \in Item, m \in Image : upload_item_image(r, i, m)
           \/ \E r \in Request : UploadCommits(r)
           \/ /\ \A m \in Image : image'[m] = image[m] \/ image'[m] = None
              /\ \A r \in Request : req'[r].op = "upload" => req'[r] = req[r]
<1> DEFINE Less == /\ \A m \in Image : image'[m] = image[m] \/ image'[m] = None
                   /\ \A r \in Request : req'[r].op = "upload" => req'[r] = req[r]
           Begun == \E r \in Request, i \in Item, m \in Image : upload_item_image(r, i, m)
           Stored == \E r \in Request : UploadCommits(r)
<1>1. ASSUME UNCHANGED <<image, req>>
      PROVE  Less
  BY <1>1
<1>2. ASSUME NEW r \in Request, NEW op, Finish(r, op), UNCHANGED image
      PROVE  Less
  BY <1>2 DEF Finish, Idle, TypeOK
<1>3. ASSUME NEW r \in Request, NEW op \in Op \ {"upload"}, NEW a, NEW i, NEW m, NEW seen,
             Begin(r, op, a, i, m, seen), UNCHANGED image
      PROVE  Less
  BY <1>3 DEF Begin, TypeOK
<1>4. ASSUME NEW r \in Request, DeleteImageCommits(r)
      PROVE  Less
  BY <1>4 DEF DeleteImageCommits, Finish, Idle, TypeOK
<1>5. ASSUME NEW r \in Request, RequestDies(r)
      PROVE  Less
  BY <1>5 DEF RequestDies, images, Idle, TypeOK
<1>6. ASSUME UNCHANGED vars
      PROVE  Less
  BY <1>1, <1>6 DEF vars, images
<1>7. ASSUME NEW i \in Item, ItemStep(i)
      PROVE  Less \/ \E r \in Request, m \in Image : upload_item_image(r, i, m)
  <2>1. CASE create_item(i)
    BY <1>1, <2>1 DEF create_item, images
  <2>2. ASSUME NEW r \in Request, delete_item(r, i) PROVE Less
    BY <1>3, <2>2 DEF delete_item, Op
  <2> QED
    BY <1>7, <2>1, <2>2, Zenon DEF ItemStep
<1>8. ASSUME NEW S \in SUBSET Item, approve_items(S) \/ reject_items(S)
      PROVE  Less
  BY <1>1, <1>8 DEF approve_items, reject_items, ReviewItems, images
<1>9. ASSUME NEW a \in Auction, DraftStep(a)
      PROVE  Less
  <2>1. ASSUME NEW r \in Request, NEW i \in Item, attach_item_to_auction(r, a, i) PROVE Less
    BY <1>3, <2>1 DEF attach_item_to_auction, Op, images
  <2> QED
    BY <1>1, <1>9, <2>1 DEF DraftStep, create_auction, update_auction, detach_item,
       publish_auction, images
<1>10. ASSUME NEW a \in Auction, LiveStep(a)
       PROVE  Less
  <2>1. ASSUME NEW r \in Request, cancel_auction_admin(r, a) PROVE Less
    BY <1>3, <2>1 DEF cancel_auction_admin, Op, images
  <2> QED
    BY <1>1, <1>10, <2>1 DEF LiveStep, extend_auction, cancel_auction, PlaceBid,
       SettleEnded, Settle, images
<1>11. ASSUME NEW r \in Request, End(r)
       PROVE  Less \/ UploadCommits(r)
  BY <1>2, <1>4, <1>11 DEF End, UploadFails, DeleteItemCommits, DeleteItemRefused,
     AttachCommits, AttachRefused, CancelAdminCommits, CancelAdminRefused, images
<1>12. ASSUME NEW r \in Request, NEW m \in Image, delete_item_image(r, m)
       PROVE  Less
  BY <1>3, <1>12 DEF delete_item_image, Op
<1>13. ASSUME get_scheduled_auctions \/ Activate \/ ActivationFails \/ Tick
       PROVE  Less
  BY <1>1, <1>13 DEF get_scheduled_auctions, Activate, ActivationFails, Tick, images
<1> HIDE DEF Less
<1>14. ASSUME NEW i \in Item, ItemStep(i)
       PROVE  Less \/ Begun
  BY <1>7, <1>14
<1>15. ASSUME NEW r \in Request, End(r)
       PROVE  Less \/ Stored
  BY <1>11, <1>15
<1> HIDE DEF Less, Begun, Stored
<1>16. Less \/ Begun \/ Stored
  <2>1. CASE \E r \in Request : \/ End(r) \/ RequestDies(r)
                              \/ \E m \in Image : delete_item_image(r, m)
    BY <1>5, <1>12, <1>15, <2>1
  <2>2. CASE \E a \in Auction : DraftStep(a) \/ LiveStep(a)
    BY <1>9, <1>10, <2>2
  <2>3. CASE \E i \in Item : ItemStep(i)
    BY <1>14, <2>3
  <2>4. CASE \E S \in SUBSET Item : approve_items(S) \/ reject_items(S)
    BY <1>8, <2>4, Zenon
  <2>5. CASE Next
    BY <1>13, <2>1, <2>2, <2>3, <2>4, <2>5 DEF Next
  <2> QED
    BY <1>6, <2>5
<1> QED
  BY <1>16 DEF Less, Begun, Stored

LEMMA RoomInit == Init => RoomWasThere
<1> SUFFICES ASSUME Init, NEW i \in Item
             PROVE  /\ IsFiniteSet(ImagesOf(i))
                    /\ Cardinality(ImagesOf(i)) + Cardinality(UploadsTo(i)) <
                           MaxImages + Cardinality(Request)
  BY DEF RoomWasThere
<1>1. ImagesOf(i) = {} /\ UploadsTo(i) = {}
  BY NoneIsNone DEF Init, ImagesOf, UploadsTo, Idle
<1> QED
  BY <1>1, RequestFinite, FS_EmptySet

\* An upload that begins found fewer images than the limit.
LEMMA RoomUpload ==
    ASSUME TypeOK, RoomWasThere, NEW r \in Request, NEW j \in Item, NEW m \in Image,
           upload_item_image(r, j, m)
    PROVE  RoomWasThere'
<1> SUFFICES ASSUME NEW i \in Item
             PROVE  /\ IsFiniteSet(ImagesOf(i)')
                    /\ Cardinality(ImagesOf(i)') + Cardinality(UploadsTo(i)') <
                           MaxImages + Cardinality(Request)
  BY DEF RoomWasThere
<1>1. ImagesOf(i)' = ImagesOf(i)
  BY DEF upload_item_image, upload_image, ImagesOf
<1>2. IsFiniteSet(ImagesOf(i)) /\ Cardinality(ImagesOf(i)) \in Nat
  BY FS_CardinalityType DEF RoomWasThere
<1>3. CASE i = j
  <2>1. Cardinality(ImagesOf(i)) < MaxImages
    BY <1>3 DEF upload_item_image, upload_image
  <2>2. /\ Cardinality(UploadsTo(i)') \in Nat
        /\ Cardinality(UploadsTo(i)') <= Cardinality(Request)
    BY UploadsBoundedAfter
  <2> QED
    BY <1>1, <1>2, <2>1, <2>2, RequestFinite
<1>4. CASE i # j
  <2>1. UploadsTo(i)' = UploadsTo(i)
    BY <1>4 DEF upload_item_image, upload_image, UploadsTo, Begin, Idle, TypeOK
  <2> QED
    BY <1>1, <1>2, <2>1 DEF RoomWasThere
<1> QED
  BY <1>3, <1>4

\* An upload that commits becomes an image.
LEMMA RoomCommits ==
    ASSUME TypeOK, RoomWasThere, NEW r \in Request, UploadCommits(r)
    PROVE  RoomWasThere'
<1> SUFFICES ASSUME NEW i \in Item
             PROVE  /\ IsFiniteSet(ImagesOf(i)')
                    /\ Cardinality(ImagesOf(i)') + Cardinality(UploadsTo(i)') <
                           MaxImages + Cardinality(Request)
  BY DEF RoomWasThere
<1> DEFINE m == req[r].image
<1>1. /\ IsFiniteSet(ImagesOf(i)) /\ Cardinality(ImagesOf(i)) \in Nat
      /\ Cardinality(ImagesOf(i)) + Cardinality(UploadsTo(i)) <
                           MaxImages + Cardinality(Request)
  BY FS_CardinalityType DEF RoomWasThere
<1>2. IsFiniteSet(UploadsTo(i)) /\ Cardinality(UploadsTo(i)) \in Nat
  BY UploadsBounded
<1>3. UploadsTo(i)' = UploadsTo(i) \ {r}
  BY DEF UploadCommits, UploadsTo, Finish, Idle, TypeOK
<1>4. CASE req[r].item = i
  <2>1. ImagesOf(i)' \in SUBSET (ImagesOf(i) \union {m}) /\ r \in UploadsTo(i)
    BY <1>4 DEF UploadCommits, ImagesOf, UploadsTo, Finish, TypeOK
  <2> DEFINE M == ImagesOf(i) \union {m}
             N == ImagesOf(i)'
  <2>2. IsFiniteSet(M) /\ Cardinality(M) <= Cardinality(ImagesOf(i)) + 1
    <3> HIDE DEF m
    <3>1. /\ IsFiniteSet(M)
          /\ Cardinality(M) = IF m \in ImagesOf(i) THEN Cardinality(ImagesOf(i))
                              ELSE Cardinality(ImagesOf(i)) + 1
      BY <1>1, FS_AddElement
    <3> QED
      BY <1>1, <3>1
  <2>3. N \in SUBSET M
    BY <2>1
  <2>4. Cardinality(UploadsTo(i)') = Cardinality(UploadsTo(i)) - 1
    BY <1>2, <1>3, <2>1, FS_RemoveElement
  <2> HIDE DEF M, N
  <2>5. IsFiniteSet(N) /\ Cardinality(N) <= Cardinality(M)
    BY <2>2, <2>3, FS_Subset
  <2>6. Cardinality(N) \in Nat /\ Cardinality(M) \in Nat
    BY <2>2, <2>5, FS_CardinalityType
  <2>7. IsFiniteSet(N) /\ Cardinality(N) + Cardinality(UploadsTo(i)') <
                           MaxImages + Cardinality(Request)
    BY <1>1, <1>2, <2>2, <2>4, <2>5, <2>6, RequestFinite
  <2> QED
    BY <2>7 DEF N
<1>5. CASE req[r].item # i
  <2>1. ImagesOf(i)' \in SUBSET ImagesOf(i)
    BY <1>5 DEF UploadCommits, ImagesOf, TypeOK
  <2>2. UploadsTo(i)' = UploadsTo(i)
    BY <1>3, <1>5 DEF UploadsTo
  <2> DEFINE N == ImagesOf(i)'
  <2>3. N \in SUBSET ImagesOf(i)
    BY <2>1
  <2> HIDE DEF N
  <2>4. IsFiniteSet(N) /\ Cardinality(N) <= Cardinality(ImagesOf(i)) /\ Cardinality(N) \in Nat
    BY <1>1, <2>3, FS_Subset, FS_CardinalityType
  <2>5. IsFiniteSet(N) /\ Cardinality(N) + Cardinality(UploadsTo(i)') <
                           MaxImages + Cardinality(Request)
    BY <1>1, <1>2, <2>2, <2>4, RequestFinite
  <2> QED
    BY <2>5 DEF N
<1> QED
  BY <1>4, <1>5

LEMMA RoomLess ==
    ASSUME TypeOK, RoomWasThere,
           \A m \in Image : image'[m] = image[m] \/ image'[m] = None,
           \A r \in Request : req'[r].op = "upload" => req'[r] = req[r]
    PROVE  RoomWasThere'
<1> SUFFICES ASSUME NEW i \in Item
             PROVE  /\ IsFiniteSet(ImagesOf(i)')
                    /\ Cardinality(ImagesOf(i)') + Cardinality(UploadsTo(i)') <
                           MaxImages + Cardinality(Request)
  BY DEF RoomWasThere
<1> DEFINE N == ImagesOf(i)'
           U == UploadsTo(i)'
<1>1. N \in SUBSET ImagesOf(i) /\ U \in SUBSET UploadsTo(i)
  BY NoneIsNone DEF ImagesOf, UploadsTo
<1>2. /\ IsFiniteSet(ImagesOf(i)) /\ Cardinality(ImagesOf(i)) \in Nat
      /\ IsFiniteSet(UploadsTo(i)) /\ Cardinality(UploadsTo(i)) \in Nat
      /\ Cardinality(ImagesOf(i)) + Cardinality(UploadsTo(i)) <
                           MaxImages + Cardinality(Request)
  BY UploadsBounded, FS_CardinalityType DEF RoomWasThere
<1> HIDE DEF N, U
<1>3. /\ IsFiniteSet(N) /\ Cardinality(N) <= Cardinality(ImagesOf(i))
      /\ Cardinality(N) \in Nat
  BY <1>1, <1>2, FS_Subset, FS_CardinalityType
<1>4. Cardinality(U) <= Cardinality(UploadsTo(i)) /\ Cardinality(U) \in Nat
  BY <1>1, <1>2, FS_Subset, FS_CardinalityType
<1>5. IsFiniteSet(N) /\ Cardinality(N) + Cardinality(U) < MaxImages + Cardinality(Request)
  BY <1>2, <1>3, <1>4, RequestFinite
<1> QED
  BY <1>5 DEF N, U

\* The limit that upload_item_image counts against is exceeded by the images that
\* overlapping requests upload, and by no others.
THEOREM LimitHolds == Spec => []ImageLimit
<1>1. IInv /\ RoomWasThere /\ [Next]_vars => RoomWasThere'
  BY ImageSteps, RoomUpload, RoomCommits, RoomLess DEF IInv
<1>2. RoomWasThere => ImageLimit
  <2> SUFFICES ASSUME RoomWasThere, NEW i \in Item
               PROVE  Cardinality(ImagesOf(i)) < MaxImages + Cardinality(Request)
    BY DEF ImageLimit
  <2>1. Cardinality(ImagesOf(i)) \in Nat /\ Cardinality(UploadsTo(i)) \in Nat
    BY UploadsBounded, FS_CardinalityType DEF RoomWasThere
  <2> QED
    BY <2>1, RequestFinite DEF RoomWasThere
<1> QED
  BY <1>1, <1>2, RoomInit, Inductive, PTL DEF Spec

-----------------------------------------------------------------------------
(***************************************************************************)
(* The assets at Cloudinary.  A request that deletes an image has deleted  *)
(* the asset, and nothing stores it again while the request is under way.  *)
(***************************************************************************)

OneImageEach ==
    \A r \in Request : req[r].op \notin {"upload", "delete_image"} => req[r].image = None

DeletedFirst ==
    \A r \in Request : req[r].op = "delete_image" => req[r].image \notin assets

AssetsShown == \A m \in assets : image[m] # None \/ \E r \in Request : req[r].image = m

AInv == OneImageEach /\ (spent["fault"] = 0 => DeletedFirst /\ AssetsShown)

LEMMA AssetInit == Init => AInv
  BY DEF Init, AInv, OneImageEach, DeletedFirst, AssetsShown, Idle

\* A failure stays on record.
LEMMA FaultStays ==
    ASSUME TypeOK, NEW e \in Event, NEW bound, Spend(e, bound), spent'["fault"] = 0
    PROVE  spent["fault"] = 0 /\ e # "fault"
  BY DEF TypeOK, Spend, Event

\* Without a failure, Cloudinary deletes what it is asked to.
LEMMA Destroyed ==
    ASSUME TypeOK, NEW M, Destroy(M), spent'["fault"] = 0
    PROVE  spent["fault"] = 0 /\ assets' = assets \ M
  BY FaultStays DEF Destroy, Event

\* Steps that leave images, assets and requests alone.
LEMMA AssetSame ==
    ASSUME AInv, UNCHANGED <<image, assets, req>>, spent'["fault"] = 0 => spent["fault"] = 0
    PROVE  AInv'
  BY DEF AInv, OneImageEach, DeletedFirst, AssetsShown

\* A request that has no image begins or ends.
LEMMA AssetOther ==
    ASSUME TypeOK, AInv, NEW r \in Request, NEW work, req' = [req EXCEPT ![r] = work],
           req[r].image = None, work.op \notin {"upload", "delete_image"}, work.image = None,
           UNCHANGED image, spent'["fault"] = 0 => spent["fault"] = 0 /\ assets' \subseteq assets
    PROVE  AInv'
<1>1. req'[r] = work /\ \A q \in Request : q # r => req'[q] = req[q]
  BY DEF TypeOK
<1>2. OneImageEach'
  BY <1>1 DEF AInv, OneImageEach
<1>3. ASSUME spent'["fault"] = 0
      PROVE  DeletedFirst' /\ AssetsShown'
  <2>1. spent["fault"] = 0 /\ assets' \subseteq assets /\ assets \subseteq Image
    BY <1>3 DEF TypeOK
  <2>2. DeletedFirst'
    BY <1>1, <2>1 DEF AInv, DeletedFirst
  <2>3. AssetsShown'
    BY <1>1, <2>1, NoneIsNone DEF AInv, AssetsShown
  <2> QED
    BY <2>2, <2>3
<1> QED
  BY <1>2, <1>3 DEF AInv

LEMMA AssetBegin ==
    ASSUME TypeOK, AInv, NEW r \in Request, NEW op \in Op \ {"upload", "delete_image"},
           NEW a, NEW i, NEW seen, Begin(r, op, a, i, None, seen),
           UNCHANGED image, spent'["fault"] = 0 => spent["fault"] = 0 /\ assets' \subseteq assets
    PROVE  AInv'
<1> DEFINE work == [op |-> op, auction |-> a, item |-> i, image |-> None, seen |-> seen]
<1>1. req[r].image = None /\ req' = [req EXCEPT ![r] = work]
  BY DEF Begin, Idle
<1>2. work.op \notin {"upload", "delete_image"} /\ work.image = None
  OBVIOUS
<1> HIDE DEF work
<1> QED
  BY <1>1, <1>2, AssetOther

LEMMA AssetFinish ==
    ASSUME TypeOK, AInv, NEW r \in Request, NEW op, op \notin {"upload", "delete_image"},
           Finish(r, op), UNCHANGED <<images, spent>>
    PROVE  AInv'
<1>1. req[r].image = None /\ req' = [req EXCEPT ![r] = Idle]
  BY DEF Finish, AInv, OneImageEach
<1>2. Idle.op \notin {"upload", "delete_image"} /\ Idle.image = None
  BY DEF Idle
<1> QED
  BY <1>1, <1>2, AssetOther DEF images

\* An upload that begins takes an image that no request is about.
LEMMA AssetUpload ==
    ASSUME TypeOK, AInv, NEW r \in Request, NEW i \in Item, NEW m \in Image,
           upload_item_image(r, i, m)
    PROVE  AInv'
<1>1. /\ req[r] = Idle /\ req'[r].op = "upload" /\ req'[r].image = m
      /\ \A q \in Request : q # r => req'[q] = req[q]
      /\ \A q \in Request : req[q].image # m
      /\ assets' = assets \union {m} /\ UNCHANGED <<image, spent>>
  BY DEF upload_item_image, upload_image, Begin, TypeOK
<1>2. OneImageEach'
  BY <1>1 DEF AInv, OneImageEach
<1>3. DeletedFirst => DeletedFirst'
  BY <1>1 DEF DeletedFirst
<1>4. AssetsShown => AssetsShown'
  <2>1. req[r].image = None
    BY <1>1 DEF Idle
  <2>2. assets \subseteq Image
    BY DEF TypeOK
  <2> QED
    BY <1>1, <2>1, <2>2, NoneIsNone DEF AssetsShown
<1> QED
  BY <1>1, <1>2, <1>3, <1>4 DEF AInv

\* A request ends whose image has a row now, or no asset any more.
LEMMA AssetEnd ==
    ASSUME TypeOK, AInv, NEW r \in Request, req' = [req EXCEPT ![r] = Idle],
           \A m \in Image : m # req[r].image => image'[m] = image[m],
           spent'["fault"] = 0 =>
               /\ spent["fault"] = 0 /\ assets' \subseteq assets
               /\ req[r].image \in assets' => image'[req[r].image] # None
    PROVE  AInv'
<1>1. req'[r] = Idle /\ \A q \in Request : q # r => req'[q] = req[q]
  BY DEF TypeOK
<1>2. OneImageEach'
  BY <1>1 DEF AInv, OneImageEach, Idle
<1>3. ASSUME spent'["fault"] = 0
      PROVE  DeletedFirst' /\ AssetsShown'
  <2>1. spent["fault"] = 0 /\ assets' \subseteq assets /\ assets \subseteq Image
    BY <1>3 DEF TypeOK
  <2>2. DeletedFirst'
    BY <1>1, <2>1 DEF AInv, DeletedFirst, Idle
  <2>3. AssetsShown'
    BY <1>1, <1>3, <2>1 DEF AInv, AssetsShown
  <2> QED
    BY <2>2, <2>3
<1> QED
  BY <1>2, <1>3 DEF AInv

LEMMA AssetUploadEnds ==
    ASSUME TypeOK, AInv, NEW r \in Request, UploadCommits(r) \/ UploadFails(r)
    PROVE  AInv'
<1>1. CASE UploadCommits(r)
  <2>1. req[r] \in Work /\ req[r].op = "upload"
    BY <1>1, FinishType DEF UploadCommits
  <2>2. req[r].item \in Item
    BY <2>1 DEF Work
  <2>3. req[r].image \in Image => image'[req[r].image] # None
    BY <1>1, <2>2, NoneIsNone DEF UploadCommits, TypeOK
  <2>4. /\ req' = [req EXCEPT ![r] = Idle] /\ UNCHANGED <<assets, spent>>
        /\ \A m \in Image : m # req[r].image => image'[m] = image[m]
    BY <1>1 DEF UploadCommits, Finish, TypeOK
  <2>5. assets \subseteq Image
    BY DEF TypeOK
  <2> QED
    BY <2>3, <2>4, <2>5, AssetEnd
<1>2. CASE UploadFails(r)
  <2>1. req' = [req EXCEPT ![r] = Idle] /\ UNCHANGED image
    BY <1>2 DEF UploadFails, Finish
  <2>2. spent'["fault"] = 0 => spent["fault"] = 0 /\ assets' = assets \ {req[r].image}
    BY <1>2, Destroyed, FaultStays DEF UploadFails, Event
  <2> QED
    BY <2>1, <2>2, AssetEnd
<1> QED
  BY <1>1, <1>2

LEMMA AssetDelete ==
    ASSUME TypeOK, AInv, NEW r \in Request,
           (\E m \in Image : delete_item_image(r, m)) \/ DeleteImageCommits(r)
    PROVE  AInv'
<1>1. ASSUME NEW m \in Image, delete_item_image(r, m)
      PROVE  AInv'
  <2>1. /\ req[r] = Idle /\ req'[r].op = "delete_image" /\ req'[r].image = m
        /\ \A q \in Request : q # r => req'[q] = req[q]
        /\ UNCHANGED image
    BY <1>1 DEF delete_item_image, Begin, TypeOK
  <2>2. OneImageEach'
    BY <2>1 DEF AInv, OneImageEach
  <2>3. ASSUME spent'["fault"] = 0
        PROVE  DeletedFirst' /\ AssetsShown'
    <3>1. spent["fault"] = 0 /\ assets' = assets \ {m} /\ assets \subseteq Image
      BY <1>1, <2>3, Destroyed DEF delete_item_image, TypeOK
    <3>2. DeletedFirst'
      BY <2>1, <3>1 DEF AInv, DeletedFirst
    <3>3. req[r].image = None
      BY <2>1 DEF Idle
    <3>4. AssetsShown'
      BY <2>1, <3>1, <3>3, NoneIsNone DEF AInv, AssetsShown
    <3> QED
      BY <3>2, <3>4
  <2> QED
    BY <2>2, <2>3 DEF AInv
<1>2. ASSUME DeleteImageCommits(r)
      PROVE  AInv'
  <2>1. /\ req' = [req EXCEPT ![r] = Idle] /\ UNCHANGED <<assets, spent>>
        /\ req[r].op = "delete_image"
        /\ \A m \in Image : m # req[r].image => image'[m] = image[m]
    BY <1>2 DEF DeleteImageCommits, Finish, TypeOK
  <2>2. spent["fault"] = 0 => req[r].image \notin assets
    BY <2>1 DEF AInv, DeletedFirst
  <2> QED
    BY <2>1, <2>2, AssetEnd
<1> QED
  BY <1>1, <1>2

LEMMA AssetNext ==
    ASSUME TypeOK, AInv, [Next]_vars
    PROVE  AInv'
<1>1. CASE UNCHANGED vars
  BY <1>1, AssetSame DEF vars, images
<1>2. ASSUME NEW i \in Item, ItemStep(i)
      PROVE  AInv'
  <2>1. CASE create_item(i)
    BY <2>1, AssetSame, FaultStays DEF create_item, images, Event
  <2>2. ASSUME NEW r \in Request, delete_item(r, i) PROVE AInv'
    BY <2>2, AssetBegin, Destroyed DEF delete_item, Op
  <2> QED
    BY <1>2, <2>1, <2>2, AssetUpload DEF ItemStep
<1>3. ASSUME NEW S \in SUBSET Item, approve_items(S) \/ reject_items(S)
      PROVE  AInv'
  BY <1>3, AssetSame, FaultStays DEF approve_items, reject_items, ReviewItems, images, Event
<1>4. ASSUME NEW a \in Auction, DraftStep(a)
      PROVE  AInv'
  <2>1. ASSUME NEW r \in Request, NEW i \in Item, attach_item_to_auction(r, a, i) PROVE AInv'
    BY <2>1, AssetBegin DEF attach_item_to_auction, Op, images
  <2> QED
    BY <1>4, <2>1, AssetSame, FaultStays DEF DraftStep, create_auction, update_auction,
       detach_item, publish_auction, images, Event
<1>5. ASSUME NEW a \in Auction, LiveStep(a)
      PROVE  AInv'
  <2>1. ASSUME NEW r \in Request, cancel_auction_admin(r, a) PROVE AInv'
    <3>1. spent'["fault"] = 0 => spent["fault"] = 0
      BY <2>1, FaultStays DEF cancel_auction_admin, Event
    <3> QED
      BY <2>1, <3>1, AssetBegin DEF cancel_auction_admin, Op, images
  <2> QED
    BY <1>5, <2>1, AssetSame, FaultStays DEF LiveStep, extend_auction, cancel_auction,
       PlaceBid, SettleEnded, Settle, images, Event
<1>6. ASSUME NEW r \in Request, End(r)
      PROVE  AInv'
  BY <1>6, AssetUploadEnds, AssetDelete, AssetFinish DEF End, DeleteItemCommits,
     DeleteItemRefused, AttachCommits, AttachRefused, CancelAdminCommits, CancelAdminRefused
<1>7. ASSUME NEW r \in Request, RequestDies(r)
      PROVE  AInv'
  <2>1. spent'["fault"] # 0 /\ req' = [req EXCEPT ![r] = Idle]
    BY <1>7, FaultStays DEF RequestDies, Event
  <2>2. OneImageEach'
    BY <2>1 DEF AInv, OneImageEach, Idle, TypeOK
  <2> QED
    BY <2>1, <2>2 DEF AInv
<1>8. ASSUME NEW r \in Request, NEW m \in Image, delete_item_image(r, m)
      PROVE  AInv'
  BY <1>8, AssetDelete
<1>9. CASE get_scheduled_auctions \/ Activate \/ ActivationFails \/ Tick
  BY <1>9, AssetSame, FaultStays DEF get_scheduled_auctions, Activate, ActivationFails, Tick,
     images, Event
<1>10. CASE Next
  <2>1. CASE \E r \in Request : \/ End(r) \/ RequestDies(r)
                              \/ \E m \in Image : delete_item_image(r, m)
    BY <1>6, <1>7, <1>8, <2>1
  <2>2. CASE \E a \in Auction : DraftStep(a) \/ LiveStep(a)
    BY <1>4, <1>5, <2>2
  <2>3. CASE \E i \in Item : ItemStep(i)
    BY <1>2, <2>3
  <2>4. CASE \E S \in SUBSET Item : approve_items(S) \/ reject_items(S)
    BY <1>3, <2>4
  <2> QED
    BY <1>9, <1>10, <2>1, <2>2, <2>3, <2>4 DEF Next
<1> QED
  BY <1>1, <1>10

\* As long as Cloudinary and the database answer, every asset is shown by a row or is on
\* its way to one, whatever uploads and deletions overlap.
THEOREM AssetsAreShown == Spec => []NoOrphanAssets
<1>1. IInv /\ AInv /\ [Next]_vars => AInv'
  BY AssetNext DEF IInv
<1>2. AInv => NoOrphanAssets
  BY DEF AInv, AssetsShown, NoOrphanAssets
<1> QED
  BY <1>1, <1>2, AssetInit, Inductive, PTL DEF Spec
=============================================================================
