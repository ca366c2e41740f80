----------------------------- MODULE Storefront -----------------------------
(***************************************************************************)
(* The public pages of one creator and their cache: /@username and the     *)
(* page of one product.                                                    *)
(*                                                                         *)
(* A reader that misses the cache loads a page with several statements,    *)
(* each on a snapshot of its own, and stores what it has loaded.  A writer *)
(* commits, asks under which name the page is now, then deletes the        *)
(* entries under that name.  Redis may answer none of them: a failed GET   *)
(* is a miss, a failed SET stores nothing, a failed DEL leaves the entry   *)
(* until its TTL ends.                                                     *)
(***************************************************************************)
EXTENDS Links, SequencesExt

CONSTANTS
    Slugs,           \* the slugs that the product can have
    Offers,          \* what a product page says: title, price, description
    Listings,        \* the confirmed files of the product, as it lists them
    MayFail          \* whether an invalidation can be lost

VARIABLES
    slug,
    offer,           \* the product, None unless it is published
    listing,
    cache,           \* the entry of each key
    loaded,          \* what a reader, or the end of a write, has read so far
    overlapped,      \* readers that began before an invalidation
    tainted          \* keys whose entry an invalidation has missed

storefrontVars == <<linksVars, slug, offer, listing, cache, loaded, overlapped, tainted>>
product == <<slug, offer, listing>>
ghosts == <<overlapped, tainted>>
edits == <<profile, links, profileLock, writes, asked, clash>>

(* Neither a page nor any part of one.                                     *)
Nothing == <<>>

(* pageKey and productKey: the username is the same in all of them.        *)
Keys == {"page"} \cup Slugs

PageSteps == {"links", "products", "storePage"}
ProductSteps == {"includes", "storeProduct"}
WriterSteps == {"coords", "drop"}
StorefrontSteps ==
    {"idle", "invalidate"} \cup InTx \cup PageSteps \cup ProductSteps \cup WriterSteps

ASSUME StorefrontAssumption ==
    /\ "page" \notin Slugs
    /\ None \notin Offers
    /\ MayFail \in BOOLEAN

StorefrontInit ==
    /\ LinksInit
    /\ slug \in Slugs
    /\ offer = None
    /\ listing \in Listings
    /\ cache = [k \in Keys |-> Nothing]
    /\ loaded = [c \in Callers |-> Nothing]
    /\ overlapped = {} /\ tainted = {}

(* WHERE is_active ORDER BY position.                                      *)
ShownIn(rows) ==
    SetToSortSeq({l \in Links : rows[l].state = "shown"}, LAMBDA l, m : OrderOf(rows, l, m))
ShownLinks == ShownIn(links)

(* WHERE status = 'published'.                                             *)
Listed == IF offer # None THEN <<slug, offer>> ELSE <<>>

(* What a reader would load now, if nothing was written meanwhile: a page  *)
(* or, for a 404, nothing.                                                 *)
CurrentPage ==
    IF profile = "shown" THEN [links |-> ShownLinks, products |-> Listed] ELSE Nothing
Offered(s) ==
    IF offer # None /\ slug = s
    THEN [slug |-> s, offer |-> offer, listing |-> listing] ELSE Nothing
CurrentProduct(s) == IF profile = "shown" THEN Offered(s) ELSE Nothing

-----------------------------------------------------------------------------
(* Page: the GET misses, or fails, and FindCreator; a 404 is not stored.   *)
FindCreator(c) ==
    /\ at[c] = "idle"
    /\ profile = "shown"
    /\ Goto(c, "links")
    /\ UNCHANGED <<edits, product, cache, loaded, ghosts>>

ListLinks(c) ==
    /\ at[c] = "links"
    /\ loaded' = [loaded EXCEPT ![c] = [links |-> ShownLinks]]
    /\ Goto(c, "products")
    /\ UNCHANGED <<edits, product, cache, ghosts>>

ListProducts(c) ==
    /\ at[c] = "products"
    /\ loaded' = [loaded EXCEPT ![c] = [links |-> loaded[c].links, products |-> Listed]]
    /\ Goto(c, "storePage")
    /\ UNCHANGED <<edits, product, cache, ghosts>>

(* Product: the GET misses, or fails, and FindProduct, which finds one row *)
(* under the slug of the URL or answers a 404.                             *)
FindProduct(c) ==
    /\ at[c] = "idle"
    /\ profile = "shown" /\ offer # None
    /\ loaded' = [loaded EXCEPT ![c] = [slug |-> slug, offer |-> offer]]
    /\ Goto(c, "includes")
    /\ UNCHANGED <<edits, product, cache, ghosts>>

ListDeliverables(c) ==
    /\ at[c] = "includes"
    /\ loaded' = [loaded EXCEPT ![c] =
          [slug |-> loaded[c].slug, offer |-> loaded[c].offer, listing |-> listing]]
    /\ Goto(c, "storeProduct")
    /\ UNCHANGED <<edits, product, cache, ghosts>>

(* SetJSON, best effort, and the answer.                                   *)
Store(c, k) ==
    /\ \/ /\ cache' = [cache EXCEPT ![k] = loaded[c]]
          /\ tainted' = IF c \in overlapped THEN tainted \cup {k} ELSE tainted \ {k}
       \/ UNCHANGED <<cache, tainted>>
    /\ loaded' = [loaded EXCEPT ![c] = Nothing]
    /\ overlapped' = overlapped \ {c}
    /\ Goto(c, "idle")
    /\ UNCHANGED <<edits, product>>

StorePage(c) == at[c] = "storePage" /\ Store(c, "page")
StoreProduct(c) == at[c] = "storeProduct" /\ Store(c, loaded[c].slug)

(* pageTTL has passed since the entry was stored.                          *)
Expire(k) ==
    /\ cache[k] # Nothing
    /\ cache' = [cache EXCEPT ![k] = Nothing]
    /\ tainted' = tainted \ {k}
    /\ UNCHANGED <<edits, at, product, loaded, overlapped>>

-----------------------------------------------------------------------------
(* products.Service commits, whatever the call went through before         *)
(* (Catalog), and changes as little as nothing of what is shown.           *)
Commit(c) ==
    /\ at[c] = "idle"
    /\ profile # "absent"
    /\ Goto(c, "coords")
    /\ UNCHANGED <<edits, cache, loaded, ghosts>>

UpdateProduct(c, s, o) ==
    /\ Commit(c)
    /\ slug' = s /\ offer' = o
    /\ UNCHANGED listing

(* ConfirmUpload, DeleteFile: without a confirmed file it is unpublished.  *)
ChangeFiles(c, o, files) ==
    /\ Commit(c)
    /\ o \in {offer, None}
    /\ offer' = o /\ listing' = files
    /\ UNCHANGED slug

(* The caller has begun to load what the key k stands for.                 *)
Loads(c, k) == IF k = "page" THEN at[c] \in PageSteps
               ELSE at[c] \in ProductSteps /\ loaded[c].slug = k

Overtaken(keys) == {c \in Callers : \E k \in keys : Loads(c, k)}

Delete(keys) ==
    /\ cache' = [k \in Keys |-> IF k \in keys THEN Nothing ELSE cache[k]]
    /\ overlapped' = overlapped \cup Overtaken(keys)
    /\ tainted' = tainted \ keys

(* The lookup of the name or the DEL fails, or the process dies first.     *)
Keep(keys) ==
    /\ MayFail
    /\ overlapped' = overlapped \cup Overtaken(keys)
    /\ tainted' = tainted \cup {k \in keys : cache[k] # Nothing}
    /\ UNCHANGED cache

InvalidateProfile(c) ==
    /\ Return(c)
    /\ Delete({"page"}) \/ Keep({"page"})
    /\ UNCHANGED <<product, loaded>>

(* PublicCoords: the slug that the row has by now, and no other it had.    *)
PublicCoords(c) ==
    /\ at[c] = "coords"
    /\ \/ /\ loaded' = [loaded EXCEPT ![c] = [slug |-> slug]]
          /\ Goto(c, "drop")
          /\ UNCHANGED <<cache, ghosts>>
       \/ /\ Goto(c, "idle")
          /\ Keep({"page", slug})
          /\ UNCHANGED loaded
    /\ UNCHANGED <<edits, product>>

(* Mutant: only the page of the product is dropped.                        *)
InvalidateProductPage(c) ==
    /\ at[c] = "drop"
    /\ Delete({loaded[c].slug}) \/ Keep({"page", loaded[c].slug})
    /\ loaded' = [loaded EXCEPT ![c] = Nothing]
    /\ Goto(c, "idle")
    /\ UNCHANGED <<edits, product>>

InvalidateProduct(c) ==
    /\ at[c] = "drop"
    /\ Delete({"page", loaded[c].slug}) \/ Keep({"page", loaded[c].slug})
    /\ loaded' = [loaded EXCEPT ![c] = Nothing]
    /\ Goto(c, "idle")
    /\ UNCHANGED <<edits, product>>

(* SweepAbandonedUploads takes a file that was confirmed meanwhile         *)
(* (Catalog), and drops no entry that lists it.                            *)
SweepFile(files) ==
    /\ profile # "absent"
    /\ listing' = files
    /\ tainted' = tainted \cup {k \in {slug} : cache[k] # Nothing}
    /\ overlapped' = overlapped \cup {c \in Callers : Loads(c, slug) /\ at[c] = "storeProduct"}
    /\ UNCHANGED <<edits, at, slug, offer, cache, loaded>>

PageStep(c) ==
    \/ Edit(c) /\ UNCHANGED <<product, cache, loaded, ghosts>>
    \/ InvalidateProfile(c)
    \/ \E s \in Slugs, o \in Offers \cup {None} : UpdateProduct(c, s, o)
    \/ \E o \in Offers \cup {None}, files \in Listings : ChangeFiles(c, o, files)
    \/ PublicCoords(c) \/ InvalidateProduct(c)
    \/ FindCreator(c) \/ ListLinks(c) \/ ListProducts(c) \/ StorePage(c)
    \/ FindProduct(c) \/ ListDeliverables(c) \/ StoreProduct(c)

StorefrontNext ==
    \/ CreateProfile /\ UNCHANGED <<product, cache, loaded, ghosts>>
    \/ \E c \in Callers : PageStep(c)
    \/ \E k \in Keys : Expire(k)
    \/ \E files \in Listings : SweepFile(files)

StorefrontSpec == StorefrontInit /\ [][StorefrontNext]_storefrontVars

-----------------------------------------------------------------------------
(* Types; a caller holds what it has read until it returns.                *)
StorefrontTypeOK ==
    /\ at \in [Callers -> StorefrontSteps]
    /\ slug \in Slugs /\ offer \in Offers \cup {None} /\ listing \in Listings
    /\ DOMAIN cache = Keys /\ DOMAIN loaded = Callers
    /\ \A c \in Callers : at[c] \in ProductSteps \cup {"drop"} => loaded[c].slug \in Slugs
    /\ \A c \in Callers :
          loaded[c] # Nothing <=> at[c] \in {"products", "storePage", "drop"} \cup ProductSteps
    /\ overlapped \subseteq {c \in Callers : at[c] \in PageSteps \cup ProductSteps}
    /\ tainted \subseteq {k \in Keys : cache[k] # Nothing}

(* Some writer has committed and has yet to drop the key k.                *)
Pending(k) ==
    \E c \in Callers :
        \/ at[c] = "coords"
        \/ k = "page" /\ at[c] \in {"invalidate", "drop"}
        \/ at[c] = "drop" /\ loaded[c].slug = k

(* There is an entry that every invalidation should have reached.          *)
Reached(k) == cache[k] # Nothing /\ k \notin tainted /\ ~Pending(k)

(* "An edit should show up immediately" (service.go:22-29): once every     *)
(* writer has returned, the cached page of the creator is what the tables  *)
(* say, and is not there while the profile is hidden; the page of the      *)
(* product, under the slug it has, is what the tables say too, or, while   *)
(* the profile is hidden, what it would be if it were not.                 *)
(*                                                                         *)
(* Three things leave an entry out of date until pageTTL has passed, and   *)
(* mark it as tainted: a DEL that was lost, a load that an invalidation    *)
(* overtook, the sweep of a confirmed file.  Two more are left out:        *)
(*   - hiding the profile does not drop the page of the product, though    *)
(*     that "must stay invisible" (storefront/repository.go:95-96); the    *)
(*     creator's name on it is not followed either (service.go:41-45);     *)
(*   - nobody drops the entry under a slug that the product had before, so *)
(*     that URL does not "404 anyway" (products/service.go:156-160).       *)
PagesAreFresh ==
    /\ StorefrontTypeOK
    /\ Reached("page") => cache["page"] = CurrentPage
    /\ Reached(slug) =>
          IF profile = "shown" THEN cache[slug] = CurrentProduct(slug)
          ELSE cache[slug] = Offered(slug)

-----------------------------------------------------------------------------
(* What a caller does to the page, as Links sees it: whoever reads, or has *)
(* written a product, is idle.                                             *)
OnPage == {"invalidate"} \cup InTx
editing == [c \in Callers |-> IF at[c] \in OnPage THEN at[c] ELSE "idle"]

Page == INSTANCE Links WITH at <- editing

(* The cache only looks on: the storefront and its invalidations leave the *)
(* edits of a page to be the steps of Links, and what Links promises of    *)
(* them to hold (profiles/service.go, storefront/service.go).              *)
ImplementsLinks == Page!LinksSpec

-----------------------------------------------------------------------------
(* A reader that no invalidation has overtaken holds what the tables say,  *)
(* unless a writer has committed that has yet to invalidate: its DEL will  *)
(* then overtake the reader (storefront/service.go:65-125).                *)
ReaderInv(c) == c \notin overlapped =>
    /\ at[c] \in PageSteps /\ ~Pending("page") =>
          /\ profile = "shown"
          /\ at[c] # "links" => loaded[c].links = ShownLinks
          /\ at[c] = "storePage" => loaded[c] = CurrentPage
    /\ at[c] \in ProductSteps /\ loaded[c].slug = slug /\ ~Pending(slug) =>
          /\ offer # None /\ loaded[c].offer = offer
          /\ at[c] = "storeProduct" => loaded[c] = Offered(slug)

(* A reader that no invalidation has overtaken holds what it would load    *)
(* now, unless somebody has still to invalidate; whoever moves the product *)
(* to a slug has still to drop what is cached under it.                    *)
StorefrontInv ==
    /\ PagesAreFresh
    /\ profile = "absent" =>
          Present = {} /\ cache["page"] = Nothing /\ \A c \in Callers : at[c] = "idle"
    /\ \A c \in Callers : ReaderInv(c)
=============================================================================
