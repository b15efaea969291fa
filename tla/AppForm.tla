------------------------------ MODULE AppForm ------------------------------
(***************************************************************************)
(* The customer's settings page over the KV store, for one catalog         *)
(* variable of one device: rendering (routes_app.py, value_resolver.py),   *)
(* the touched-state form in the browser (touched_state.js) and its        *)
(* submission (routes_app_form.py).  Composes KvStore: devices, operators  *)
(* and several open pages write the same records.                          *)
(***************************************************************************)
EXTENDS KvStore

CONSTANTS
  Pages,      \* open pages; a page's submission is a write request
  DeviceKey,  \* <app>/<device>/<var>
  PublicKey,  \* <app>/public/<var>
  Defaults,   \* defaults a catalog may give the variable; "" is none
  WriteOnly   \* is the variable write_only

ASSUME FormAssumption ==
  /\ Pages \subseteq Writers
  /\ {DeviceKey, PublicKey} \subseteq Keys /\ DeviceKey # PublicKey
  /\ Defaults \subseteq Texts \cup {""}
  /\ WriteOnly \in BOOLEAN

VARIABLES
  cat,   \* what the published catalog says of the variable: its encryption
         \* ("keep" when it no longer names the variable) and its default
  page   \* each page: its step and its field

formVars == <<cat, page>>

Page == [step : {"closed", "loading", "resolving", "shown", "posted"},
         text : Texts \cup Defaults \cup {""},
         from : {"none", "device", "public", "default"},
         dirty : BOOLEAN, flag : Flags]

Closed == [step |-> "closed", text |-> "", from |-> "none", dirty |-> FALSE, flag |-> "clear"]

FormInit ==
  /\ Init
  /\ cat \in [flag : {"set", "clear"}, default : Defaults]
  /\ page = [p \in Pages |-> Closed]

(* A stored value the page can decode; null counts as none.                *)
Decodes(v) == v.type \in {"str", "json"} /\ v # Json("null")

(* The text a form input shows for a stored value.                         *)
ToFormString(v) == v.text

Show(p, text, from) ==
  page' = [page EXCEPT ![p] = [Closed EXCEPT !.step = "shown", !.text = text, !.from = from]]

(* GET /app/<app>/<device>: the catalog is loaded; its default is the last *)
(* resort of the chain ...                                                 *)
OpenPage(p) ==
  /\ page[p].step = "closed"
  /\ cat.flag # "keep"
  /\ page' = [page EXCEPT ![p].step = "loading", ![p].text = cat.default]
  /\ UNCHANGED <<vars, cat>>

(* ... the per-device override the first ...                               *)
ResolveDevice(p) ==
  /\ page[p].step = "loading"
  /\ IF Decodes(val[DeviceKey])
       THEN Show(p, ToFormString(val[DeviceKey]), "device")
       ELSE page' = [page EXCEPT ![p].step = "resolving"]
  /\ UNCHANGED <<vars, cat>>

(* ... and the app's value comes between them.                             *)
ResolvePublic(p) ==
  /\ page[p].step = "resolving"
  /\ IF Decodes(val[PublicKey])
       THEN Show(p, ToFormString(val[PublicKey]), "public")
       ELSE Show(p, page[p].text, IF page[p].text = "" THEN "none" ELSE "default")
  /\ UNCHANGED <<vars, cat>>

(* The first input event makes the field dirty.                            *)
Edit(p, t) ==
  /\ page[p].step = "shown"
  /\ page' = [page EXCEPT ![p].text = t, ![p].dirty = TRUE]
  /\ UNCHANGED <<vars, cat>>

(* serialize(): a clean field is left out if it is write-only or shows the *)
(* default; otherwise it posts the text it was rendered with.              *)
Omitted(f) == ~f.dirty /\ (WriteOnly \/ f.from = "default")

(* POST /app/<app>/<device>: the handler loads the catalog ...             *)
Submit(p) ==
  /\ page[p].step = "shown"
  /\ page' = [page EXCEPT ![p] = IF Omitted(@) THEN Closed
                                 ELSE [@ EXCEPT !.step = "posted", !.flag = cat.flag]]
  /\ UNCHANGED <<vars, cat>>

(* _decode_form_value: the empty string stays one.                         *)
DecodeForm(t) == IF t = "" THEN Str("") ELSE Decode(t)

(* ... then SETs the field's record; the flag steps are KvStore's.         *)
WriteField(p) ==
  /\ page[p].step = "posted"
  /\ BeginWrite(p, DeviceKey, DecodeForm(page[p].text), page[p].flag)
  /\ page' = [page EXCEPT ![p] = Closed]
  /\ UNCHANGED cat

(* `stra2us catalog publish` of a catalog that treats the variable anew.   *)
Republish(flag, default) ==
  /\ cat' = [flag |-> flag, default |-> default]
  /\ cat' # cat
  /\ UNCHANGED <<vars, page>>

(* The page is left, or its request aborted before it wrote anything.      *)
Leave(p) ==
  /\ page[p].step # "closed"
  /\ page' = [page EXCEPT ![p] = Closed]
  /\ UNCHANGED <<vars, cat>>

FormNext ==
  \/ \E p \in Pages :
       \/ OpenPage(p) \/ ResolveDevice(p) \/ ResolvePublic(p)
       \/ Submit(p) \/ WriteField(p) \/ Leave(p)
       \/ \E t \in Texts : Edit(p, t)
  \/ \E flag \in Flags, default \in Defaults : Republish(flag, default)
  \/ /\ \/ \E w \in Writers \ Pages : Write(w)
        \/ \E p \in Pages : WriteFlag(p) \/ GetFlag(p) \/ KeepFlag(p) \/ AbortWrite(p)
        \/ \E k \in Keys : Delete(k)
     /\ UNCHANGED formVars

FormSpec == FormInit /\ [][FormNext]_<<vars, formVars>>

---------------------------------------------------------------------------
(* Properties                                                              *)

FormTypeOK ==
  /\ TypeOK
  /\ cat \in [flag : Flags, default : Defaults]
  /\ page \in [Pages -> Page]
=============================================================================
