-------------------------- MODULE CatalogPublish --------------------------
(***************************************************************************)
(* `stra2us catalog publish` and the pages that read what it stores: the   *)
(* command line's staged upload of one app's catalog and assets            *)
(* (catalog_publish.py, cli.py, client.py), the customer page's chrome,    *)
(* stylesheet and logo (routes_app.py, routes_app_theme.py,                *)
(* routes_app_assets.py, page_renderer.py, markdown_cache.py) and the      *)
(* browser's cache of them.                                                *)
(*                                                                         *)
(* Every request of the upload is a step, and the upload may break off     *)
(* after any of them: the request is refused, its answer is lost, or the   *)
(* operator stops it.  One publish of the app runs at a time.              *)
(***************************************************************************)
EXTENDS Naturals, FiniteSets

CONSTANTS
  Files,       \* asset filenames
  Contents,    \* what a file may hold, after the SVG sanitizer
  Refused,     \* contents the sanitizer or the bundle lint refuses
  Themes,      \* theme blocks; a theme's hash stands for the theme
  Blurbs,      \* markdown blocks of the page
  Trees,       \* local trees an operator may publish from
  None,        \* no value
  MaxPublishes \* bound: publishes started

Catalogs == [logo : Files \cup {None}, theme : Themes, blurb : Blurbs]
Stored == [Files -> Contents \cup {None}]

(* A catalog file and its sibling `_assets/`; `dir` says whether there is  *)
(* such a directory.                                                       *)
Tree == [dir : BOOLEAN, assets : Stored, catalog : Catalogs]

ASSUME PublishAssumption ==
  /\ Refused \subseteq Contents
  /\ Trees \subseteq Tree
  /\ None \notin Files \cup Contents \cup Themes \cup Blurbs \cup Catalogs
  /\ MaxPublishes \in Nat

VARIABLES
  bytes,    \* kv:_catalog/<app>/_assets/<file>
  meta,     \* kv:_catalog/<app>/_assets/<file>.meta: the sha256 of its content
  catalog,  \* kv:_catalog/<app>
  listing,  \* kv:_catalog/<app>/_assets_index; {} also when it is missing
  pub,      \* the publish that is running
  blocks,   \* markdown_cache._cache: publish hash -> source it was made from
  css,      \* the browser's cache of _theme.css?v=<hash>
  img,      \* the browser's cache of _assets/<file>
  page,     \* the page the browser is loading
  managed,  \* history: the live catalog was published with its assets
  tidy,     \* history: every publish has run to its end
  raced,    \* history: hashes whose stylesheet was fetched across a publish
  count     \* history: publishes started

store == <<bytes, meta, catalog, listing>>
browser == <<css, img, page, raced>>
vars == <<store, pub, blocks, browser, managed, tidy, count>>

NoTree == [dir |-> FALSE, assets |-> [f \in Files |-> None], catalog |-> None]
Idle == [step |-> "idle", tree |-> NoTree, old |-> {}, left |-> {}, file |-> None]
Closed == [step |-> "closed", cat |-> None, hash |-> None, block |-> None, css |-> None,
           logo |-> None, body |-> None, managed |-> FALSE, raced |-> FALSE]

Init ==
  /\ bytes = [f \in Files |-> None] /\ meta = [f \in Files |-> None]
  /\ catalog = None /\ listing = {}
  /\ pub = Idle
  /\ blocks = [c \in Catalogs |-> None]
  /\ css = [h \in Themes \cup {None} |-> None]
  /\ img = [f \in Files |-> None]
  /\ page = Closed
  /\ managed = FALSE /\ tidy = TRUE /\ raced = {} /\ count = 0

---------------------------------------------------------------------------
(* The publish                                                             *)

Bundle(tree) == {f \in Files : tree.assets[f] # None}

(* lint_asset_bundle: what discover_assets collected, after the sanitizer. *)
PassesBundle(tree) == \A f \in Bundle(tree) : tree.assets[f] \notin Refused

(* _lint_theme: without `_assets/` there is no listing to look the logo up *)
(* in.                                                                     *)
PassesTheme(tree) == tree.dir => tree.catalog.logo \in Bundle(tree) \cup {None}

(* Mutant: the lint does not look for the logo in the bundle.              *)
AcceptsAnyLogo(tree) == PassesBundle(tree)

Accepts(tree) == PassesBundle(tree) /\ PassesTheme(tree)

(* `_assets/` or not decides between the staged upload and a bare PUT.     *)
StartPublish(tree) ==
  /\ pub.step = "idle"
  /\ count < MaxPublishes
  /\ Accepts(tree)
  /\ pub' = [Idle EXCEPT !.step = IF tree.dir THEN "read" ELSE "yaml", !.tree = tree]
  /\ count' = count + 1
  /\ UNCHANGED <<store, blocks, browser, managed, tidy>>

AfterAssets(left) == IF left = {} THEN "catalog" ELSE "bytes"
AfterGc(left) == IF left = {} THEN "idle" ELSE "gcBytes"

(* _existing_index: the listing the last publish stored ...                *)
ReadListing ==
  /\ pub.step = "read"
  /\ pub' = [pub EXCEPT !.old = listing, !.left = Bundle(pub.tree),
                        !.step = AfterAssets(Bundle(pub.tree))]
  /\ UNCHANGED <<store, blocks, browser, managed, tidy, count>>

(* ... or none, when the read fails: the publish goes on regardless.       *)
ListingUnread ==
  /\ pub.step = "read"
  /\ pub' = [pub EXCEPT !.left = Bundle(pub.tree), !.step = AfterAssets(Bundle(pub.tree))]
  /\ tidy' = FALSE
  /\ UNCHANGED <<store, blocks, browser, managed, count>>

(* Step 1: each asset's bytes are stored and read back ...                 *)
PutBytes(f) ==
  /\ pub.step = "bytes" /\ f \in pub.left
  /\ bytes' = [bytes EXCEPT ![f] = pub.tree.assets[f]]
  /\ pub' = [pub EXCEPT !.step = "bytesCheck", !.file = f]
  /\ UNCHANGED <<meta, catalog, listing, blocks, browser, managed, tidy, count>>

CheckBytes ==
  /\ pub.step = "bytesCheck" /\ bytes[pub.file] = pub.tree.assets[pub.file]
  /\ pub' = [pub EXCEPT !.step = "meta"]
  /\ UNCHANGED <<store, blocks, browser, managed, tidy, count>>

PutMeta ==
  /\ pub.step = "meta"
  /\ meta' = [meta EXCEPT ![pub.file] = pub.tree.assets[pub.file]]
  /\ pub' = [pub EXCEPT !.step = "metaCheck"]
  /\ UNCHANGED <<bytes, catalog, listing, blocks, browser, managed, tidy, count>>

(* ... then its sidecar.                                                   *)
CheckMeta ==
  /\ pub.step = "metaCheck" /\ meta[pub.file] = pub.tree.assets[pub.file]
  /\ pub' = [pub EXCEPT !.step = AfterAssets(pub.left \ {pub.file}),
                        !.left = @ \ {pub.file}, !.file = None]
  /\ UNCHANGED <<store, blocks, browser, managed, tidy, count>>

(* The page that is being loaded was rendered before this publish.         *)
Overtake == page' = [page EXCEPT !.raced = (page.step # "closed")]

(* Step 2: the catalog, the commit point.                                  *)
PutCatalog ==
  /\ pub.step = "catalog"
  /\ catalog' = pub.tree.catalog /\ managed' = TRUE
  /\ pub' = [pub EXCEPT !.step = "catalogCheck"]
  /\ Overtake
  /\ UNCHANGED <<bytes, meta, listing, blocks, css, img, raced, tidy, count>>

CheckCatalog ==
  /\ pub.step = "catalogCheck" /\ catalog = pub.tree.catalog
  /\ pub' = [pub EXCEPT !.step = "listing"]
  /\ UNCHANGED <<store, blocks, browser, managed, tidy, count>>

(* Step 3: the listing.                                                    *)
PutListing ==
  /\ pub.step = "listing"
  /\ listing' = Bundle(pub.tree)
  /\ pub' = [pub EXCEPT !.step = "listingCheck"]
  /\ UNCHANGED <<bytes, meta, catalog, blocks, browser, managed, tidy, count>>

(* Mutant: every file of the old listing is dropped.                       *)
DroppedAll == pub.old

Dropped == pub.old \ Bundle(pub.tree)

CheckListing ==
  /\ pub.step = "listingCheck" /\ listing = Bundle(pub.tree)
  /\ pub' = [pub EXCEPT !.left = Dropped, !.step = AfterGc(Dropped)]
  /\ UNCHANGED <<store, blocks, browser, managed, tidy, count>>

(* Step 4: the files that were listed before and are not any more.         *)
DeleteBytes(f) ==
  /\ pub.step = "gcBytes" /\ f \in pub.left
  /\ bytes' = [bytes EXCEPT ![f] = None]
  /\ pub' = [pub EXCEPT !.step = "gcMeta", !.file = f]
  /\ UNCHANGED <<meta, catalog, listing, blocks, browser, managed, tidy, count>>

(* Mutant: the sidecar is left behind.                                     *)
DeleteMetaNot ==
  /\ pub.step = "gcMeta"
  /\ pub' = [pub EXCEPT !.step = AfterGc(pub.left \ {pub.file}),
                        !.left = @ \ {pub.file}, !.file = None]
  /\ UNCHANGED <<store, blocks, browser, managed, tidy, count>>

DeleteMeta ==
  /\ pub.step = "gcMeta"
  /\ meta' = [meta EXCEPT ![pub.file] = None]
  /\ pub' = [pub EXCEPT !.step = AfterGc(pub.left \ {pub.file}),
                        !.left = @ \ {pub.file}, !.file = None]
  /\ UNCHANGED <<bytes, catalog, listing, blocks, browser, managed, tidy, count>>

(* Without `_assets/`: the catalog alone, not read back.                   *)
PutYaml ==
  /\ pub.step = "yaml"
  /\ catalog' = pub.tree.catalog /\ managed' = FALSE
  /\ pub' = Idle
  /\ Overtake
  /\ UNCHANGED <<bytes, meta, listing, blocks, css, img, raced, tidy, count>>

(* A request is refused, or done and its answer lost, or the operator      *)
(* stops the command: PublishError, and nothing is undone.                 *)
BreakOff ==
  /\ pub.step # "idle"
  /\ pub' = Idle
  /\ tidy' = FALSE
  /\ UNCHANGED <<store, blocks, browser, managed, count>>

---------------------------------------------------------------------------
(* A customer's browser                                                    *)

(* GET /app/<app>/<device> reads the catalog ...                           *)
OpenPage ==
  /\ page.step = "closed"
  /\ page' = [Closed EXCEPT !.step = "hash", !.cat = catalog, !.managed = managed]
  /\ UNCHANGED <<store, pub, blocks, css, img, raced, managed, tidy, count>>

(* Mutant: the markdown cache is keyed by the theme's hash.                *)
PublishHashOfTheme(c) == CHOOSE d \in Catalogs : d.theme = c.theme

(* compute_publish_hash: a hash of the whole catalog.                      *)
PublishHash(c) == c

(* render_block: what the cache holds for the hash, or the source itself.  *)
RenderBlock(c) ==
  IF blocks[PublishHash(c)] # None THEN blocks[PublishHash(c)] ELSE c.blurb

(* load_theme: the catalog is read and parsed on every request.            *)
ThemeNow == IF catalog = None THEN None ELSE catalog.theme

(* ... then once more for the theme's hash, and renders from the first.    *)
RenderPage ==
  /\ page.step = "hash"
  /\ page' = [page EXCEPT !.step = "css",
                !.hash = ThemeNow,
                !.block = IF page.cat = None THEN None ELSE RenderBlock(page.cat)]
  /\ blocks' = IF page.cat = None THEN blocks
               ELSE [blocks EXCEPT ![PublishHash(page.cat)] = RenderBlock(page.cat)]
  /\ UNCHANGED <<store, pub, css, img, raced, managed, tidy, count>>

(* Mutant: the hash is one block's for every catalog.                      *)
CssKeyFixed(hash) == CHOOSE h \in Themes : TRUE

(* The address the browser caches the stylesheet under.                    *)
CssKey(hash) == hash

LogoStep(cat) == IF cat # None /\ cat.logo # None THEN "logo" ELSE "shown"

(* A stylesheet in the cache is immutable and is not asked for again.      *)
CssFromCache ==
  /\ page.step = "css" /\ css[CssKey(page.hash)] # None
  /\ page' = [page EXCEPT !.css = css[CssKey(page.hash)], !.step = LogoStep(page.cat)]
  /\ UNCHANGED <<store, pub, blocks, css, img, raced, managed, tidy, count>>

(* GET _theme.css?v=<hash>: made from the catalog of now, whatever v says. *)
ServeTheme ==
  /\ page.step = "css" /\ css[CssKey(page.hash)] = None
  /\ page' = [page EXCEPT !.css = ThemeNow,
                          !.step = LogoStep(page.cat)]
  /\ css' = [css EXCEPT ![CssKey(page.hash)] = ThemeNow]
  /\ raced' = IF page.raced THEN raced \cup {page.hash} ELSE raced
  /\ UNCHANGED <<store, pub, blocks, img, managed, tidy, count>>

(* The logo's address carries no hash, and is immutable in the cache too.  *)
LogoFromCache ==
  /\ page.step = "logo" /\ img[page.cat.logo] # None
  /\ page' = [page EXCEPT !.logo = img[page.cat.logo], !.step = "shown"]
  /\ UNCHANGED <<store, pub, blocks, css, img, raced, managed, tidy, count>>

(* GET _assets/<file>: the bytes ...                                       *)
ReadAssetBytes ==
  /\ page.step = "logo" /\ img[page.cat.logo] = None
  /\ page' = [page EXCEPT !.body = bytes[page.cat.logo], !.step = "meta"]
  /\ UNCHANGED <<store, pub, blocks, css, img, raced, managed, tidy, count>>

(* ... then the sidecar; 404 unless both are there.                        *)
ServeAsset ==
  /\ page.step = "meta"
  /\ LET served == IF meta[page.cat.logo] = None THEN None ELSE page.body IN
       /\ page' = [page EXCEPT !.logo = served, !.body = None, !.step = "shown"]
       /\ img' = [img EXCEPT ![page.cat.logo] = served]
  /\ UNCHANGED <<store, pub, blocks, css, raced, managed, tidy, count>>

(* The customer goes; the caches stay.                                     *)
Leave ==
  /\ page.step # "closed"
  /\ page' = Closed
  /\ UNCHANGED <<store, pub, blocks, css, img, raced, managed, tidy, count>>

(* The server is restarted: its markdown cache is process-local.           *)
Restart ==
  /\ blocks' = [c \in Catalogs |-> None]
  /\ page' = IF page.step = "hash" THEN Closed ELSE page
  /\ UNCHANGED <<store, pub, css, img, raced, managed, tidy, count>>

---------------------------------------------------------------------------

Publish ==
  \/ \E tree \in Trees : StartPublish(tree)
  \/ ReadListing \/ ListingUnread
  \/ \E f \in Files : PutBytes(f) \/ DeleteBytes(f)
  \/ CheckBytes \/ PutMeta \/ CheckMeta
  \/ PutCatalog \/ CheckCatalog \/ PutListing \/ CheckListing
  \/ DeleteMeta \/ PutYaml \/ BreakOff

Browse ==
  \/ OpenPage \/ RenderPage
  \/ CssFromCache \/ ServeTheme
  \/ LogoFromCache \/ ReadAssetBytes \/ ServeAsset
  \/ Leave

Next == Publish \/ Browse \/ Restart

Spec == Init /\ [][Next]_vars

---------------------------------------------------------------------------
(* Properties                                                              *)

PubSteps == {"idle", "read", "bytes", "bytesCheck", "meta", "metaCheck", "catalog",
             "catalogCheck", "listing", "listingCheck", "gcBytes", "gcMeta", "yaml"}
PageSteps == {"closed", "hash", "css", "logo", "meta", "shown"}

TypeOK ==
  /\ bytes \in Stored /\ meta \in Stored
  /\ catalog \in Catalogs \cup {None}
  /\ listing \in SUBSET Files
  /\ pub \in [step : PubSteps, tree : Trees \cup {NoTree}, old : SUBSET Files,
              left : SUBSET Files, file : Files \cup {None}]
  /\ blocks \in [Catalogs -> Blurbs \cup {None}]
  /\ css \in [Themes \cup {None} -> Themes \cup {None}]
  /\ img \in Stored
  /\ page \in [step : PageSteps, cat : Catalogs \cup {None}, hash : Themes \cup {None},
               block : Blurbs \cup {None}, css : Themes \cup {None},
               logo : Contents \cup {None}, body : Contents \cup {None},
               managed : BOOLEAN, raced : BOOLEAN]
  /\ managed \in BOOLEAN /\ tidy \in BOOLEAN /\ raced \subseteq Themes \cup {None}
  /\ count \in Nat

HasAsset(f) == bytes[f] # None /\ meta[f] # None

(* publish_assets orders its writes around the commit point: a catalog     *)
(* published with its assets finds its logo, whatever is being uploaded    *)
(* over it, wherever earlier publishes broke off, and while files are      *)
(* being collected.                                                        *)
LiveLogoStored ==
  managed /\ catalog.logo # None => HasAsset(catalog.logo)

(* The page reads catalog, bytes and sidecar at three moments; its logo is *)
(* served unless the catalog was published in between.                     *)
RenderedLogoServed ==
  page.step = "shown" /\ page.managed /\ ~page.raced /\ page.cat.logo # None
    => page.logo # None

(* The index diff collects exactly what is no longer in the bundle: while  *)
(* no publish broke off, what is stored between publishes is what is       *)
(* listed, sidecars included.                                              *)
ListedIsStored ==
  tidy /\ pub.step = "idle" =>
    \A f \in Files : (bytes[f] # None) = (f \in listing) /\ (meta[f] # None) = (f \in listing)

(* render_block's cache leaves the source out of its key: a block is still *)
(* never shown on a page of another catalog than it was written in.        *)
BlockOfItsCatalog == page.block # None => page.block = page.cat.blurb

(* A year-immutable stylesheet is the one its ?v= names, unless a publish  *)
(* came between the page and the request for it.                           *)
StylesheetUnlessRaced ==
  \A h \in Themes : css[h] \in {None, h} \/ h \in raced
=============================================================================
