------------------------------ MODULE ImageProxy -----------------------------
(***************************************************************************)
(* The proxy of the image hoster: it fetches an image once, stores it,     *)
(* converts it and stores what came out (proxy.ts).  An image that was     *)
(* uploaded (upload.ts) is found under the hash of its content.            *)
(*                                                                         *)
(* The stores are S3 buckets or memory: a write replaces the whole blob.   *)
(* Handlers of different requests interleave at every await; a restart     *)
(* ends them all and leaves the buckets as they are.  What a URL elsewhere *)
(* leads to may change: its versions are numbered, and the odd ones are    *)
(* GIFs.                                                                   *)
(***************************************************************************)
EXTENDS Integers, FiniteSets, Sequences

CONSTANTS
  Web,         \* URLs of images elsewhere
  Blob,        \* images that may be uploaded
  Ask,         \* what is asked of the proxy: a URL, elsewhere or of an upload,
               \* and options
  Slot,        \* requests at a time
  MaxVersion   \* bound: versions of an image elsewhere

(* A width or a height that is not given is 0. *)
ASSUME ImageAssumption ==
  /\ Ask \subseteq [url : [elsewhere : BOOLEAN, id : Web \union Blob],
                    options : [mode : {"Cover", "Fit"}, format : {"Match", "PNG"},
                               width : Nat, height : Nat]]
  /\ \A a \in Ask : a.url.id \in IF a.url.elsewhere THEN Web ELSE Blob
  /\ MaxVersion \in Nat \ {0}

VARIABLES
  upstream,   \* the version of each image elsewhere
  uploads,    \* uploadStore: the images under their hashes
  originals,  \* proxyStore: the versions that were fetched; 0 if none was
  converted,  \* proxyStore: what was converted, by imageKey
  request,    \* the handlers that run
  settled     \* answers of the proxy to requests that no other one overlapped

storeVars == <<uploads, originals, converted>>
imageVars == <<upstream, storeVars, request, settled>>

Free == [pc |-> "free"]

(* The numbers that are given. *)
Numbers(o) ==
  (IF o.width = 0 THEN <<>> ELSE <<o.width>>) \o (IF o.height = 0 THEN <<>> ELSE <<o.height>>)

getImageKey_Legacy(url, o) ==
  [orig |-> url, mode |-> "Fit", format |-> "Match", numbers |-> <<o.width, o.height>>]

(* getImageKey: with the legacy convention for Fit and Match. *)
getImageKey(url, o) ==
  [orig |-> url, mode |-> o.mode, format |-> o.format,
   numbers |-> IF o.mode = "Fit" /\ o.format = "Match" THEN <<o.width, o.height>>
               ELSE Numbers(o)]

(* An image: where it is from, its version, and how it was converted. *)
Original(url, version) ==
  [url |-> url, version |-> version, mode |-> "none", format |-> "Match",
   width |-> 0, height |-> 0]

(* Scaling to a width, to a height and to both give different images. *)
Convert(image, o) ==
  [image EXCEPT !.mode = o.mode, !.format = o.format,
                !.width = o.width, !.height = o.height]

(* A GIF of its own size is passed through and not converted. *)
PassThrough(image, o) ==
  /\ image.version % 2 = 1
  /\ o.mode = "Fit" /\ o.format = "Match" /\ o.width = 0 /\ o.height = 0

ProxyStep == {"lookup", "original", "fetch", "write", "convert", "save", "answer"}

NoImage == Original([elsewhere |-> FALSE, id |-> "none"], 0)

ImageInit ==
  /\ upstream = [u \in Web |-> 1]
  /\ uploads = {} /\ originals = [u \in Web |-> 0] /\ converted = {}
  /\ request = [s \in Slot |-> Free] /\ settled = {}

(* What elsewhere a URL leads to changes. *)
Publish(u) ==
  /\ upstream[u] < MaxVersion /\ upstream' = [upstream EXCEPT ![u] = @ + 1]
  /\ UNCHANGED <<storeVars, request, settled>>

Finishes(s) == request' = [request EXCEPT ![s] = Free]

Goes(s, pc) == request' = [request EXCEPT ![s].pc = pc]

-----------------------------------------------------------------------------
(* uploadHandler, when it lets the image through: a blob that is there     *)
(* under this hash has the same content.                                   *)
uploadHandler(b) ==
  /\ uploads' = uploads \union {b}
  /\ UNCHANGED <<upstream, originals, converted, request, settled>>

-----------------------------------------------------------------------------
(* Requests of the proxy that run for a URL. *)
Under(url) == {s \in Slot : request[s] # Free /\ request[s].url = url}

(* proxyHandler: is there a converted image?  Requests for one URL overlap *)
(* from here on.                                                           *)
proxyHandler(s, url, o) ==
  /\ request[s] = Free
  /\ request' = [t \in Slot |->
       IF t = s THEN [pc |-> "lookup", url |-> url, options |-> o, image |-> NoImage,
                      alone |-> Under(url) = {}]
       ELSE IF t \in Under(url) THEN [request[t] EXCEPT !.alone = FALSE]
       ELSE request[t]]
  /\ UNCHANGED <<upstream, storeVars, settled>>

imageKey(s) == getImageKey(request[s].url, request[s].options)

Answer(s, image) ==
  /\ Finishes(s)
  /\ settled' = IF ~request[s].alone THEN settled
                ELSE settled \union {[url |-> request[s].url, options |-> request[s].options,
                                      image |-> image]}

(* The converted image is streamed, or the original is looked for. *)
Lookup(s) ==
  /\ request[s].pc = "lookup"
  /\ LET found == {c \in converted : c.key = imageKey(s)}
     IN  \/ \E c \in found : Answer(s, c.image)
         \/ found = {} /\ Goes(s, "original") /\ UNCHANGED settled
  /\ UNCHANGED <<upstream, storeVars>>

Has(s, image, pc) == request' = [request EXCEPT ![s].image = image, ![s].pc = pc]

(* The original is read; an upload that is not there is an error, an image *)
(* from elsewhere is fetched.                                              *)
ReadOriginal(s) ==
  LET url == request[s].url
  IN  /\ request[s].pc = "original"
      /\ IF url.elsewhere
         THEN IF originals[url.id] = 0 THEN Goes(s, "fetch")
              ELSE Has(s, Original(url, originals[url.id]), "convert")
         ELSE IF url.id \in uploads THEN Has(s, Original(url, 0), "convert") ELSE Finishes(s)
      /\ UNCHANGED <<upstream, storeVars, settled>>

(* The upstream server answers, with an image that is accepted or not. *)
fetchUrl(s) ==
  /\ request[s].pc = "fetch"
  /\ \/ Has(s, Original(request[s].url, upstream[request[s].url.id]), "write")
     \/ Finishes(s)
  /\ UNCHANGED <<upstream, storeVars, settled>>

StoreOriginal_Skipped(s) ==
  /\ request[s].pc = "write" /\ Goes(s, "convert")
  /\ UNCHANGED <<upstream, storeVars, settled>>

(* The write comes through, or throws. *)
StoreOriginal(s) ==
  /\ request[s].pc = "write"
  /\ \/ /\ Goes(s, "convert")
        /\ originals' = [originals EXCEPT ![request[s].url.id] = request[s].image.version]
     \/ Finishes(s) /\ UNCHANGED originals
  /\ UNCHANGED <<upstream, uploads, converted, settled>>

(* An image that cannot be read is an error. *)
ConvertImage(s) ==
  /\ request[s].pc = "convert"
  /\ IF PassThrough(request[s].image, request[s].options) THEN Goes(s, "answer")
     ELSE Finishes(s) \/ Has(s, Convert(request[s].image, request[s].options), "save")
  /\ UNCHANGED <<upstream, storeVars, settled>>

StoreConverted(s) ==
  /\ request[s].pc = "save"
  /\ \/ /\ Goes(s, "answer")
        /\ converted' = {c \in converted : c.key # imageKey(s)}
                          \union {[key |-> imageKey(s), image |-> request[s].image]}
     \/ Finishes(s) /\ UNCHANGED converted
  /\ UNCHANGED <<upstream, uploads, originals, settled>>

Respond(s) ==
  /\ request[s].pc = "answer" /\ Answer(s, request[s].image)
  /\ UNCHANGED <<upstream, storeVars>>

(* Every handler is lost, at whichever await it was. *)
Restart ==
  /\ \E s \in Slot : request[s] # Free
  /\ request' = [s \in Slot |-> Free]
  /\ UNCHANGED <<upstream, storeVars, settled>>

ImageNext ==
  \/ \E u \in Web : Publish(u)
  \/ \E b \in Blob : uploadHandler(b)
  \/ \E s \in Slot, a \in Ask : proxyHandler(s, a.url, a.options)
  \/ \E s \in Slot :
       \/ Lookup(s) \/ ReadOriginal(s) \/ fetchUrl(s) \/ StoreOriginal(s)
       \/ ConvertImage(s) \/ StoreConverted(s) \/ Respond(s)
  \/ Restart

ImageSpec == ImageInit /\ [][ImageNext]_imageVars

-----------------------------------------------------------------------------
ImageTypeOK ==
  /\ upstream \in [Web -> 1 .. MaxVersion] /\ originals \in [Web -> 0 .. MaxVersion]
  /\ uploads \subseteq Blob
  /\ \A c \in converted : \E a \in Ask : c.key = getImageKey(a.url, a.options)
  /\ \A s \in Slot : request[s] = Free \/ request[s].pc \in ProxyStep

(* The same number asked for the other way. *)
OtherWay(o) == [[o EXCEPT !.width = o.height] EXCEPT !.height = o.width]

AsAsked(image, o) ==
  \/ image = Convert(image, o)
  \/ /\ <<o.mode, o.format>> # <<"Fit", "Match">> /\ 0 \in {o.width, o.height}
     /\ image = Convert(image, OtherWay(o))

(* A request that no other one for its URL overlaps is answered with the   *)
(* image its URL leads to - or, of an upload, with the one that has this   *)
(* hash - converted as asked for, whoever stored it.  There is one         *)
(* exception: where a width alone or a height alone was asked for, outside *)
(* the legacy convention, it may be the image for the same number the      *)
(* other way (getImageKey; proxyHandler).                                  *)
AnsweredAsAsked ==
  \A a \in settled :
    /\ a.image.url = a.url
    /\ \/ AsAsked(a.image, a.options)
       \/ a.image.mode = "none" /\ PassThrough(a.image, a.options)

(* The answer has the width that was asked for, or one of its own if none  *)
(* was, and so the height: what ProxyOptions says of its fields.           *)
AnswerHasItsSize ==
  \A a \in settled :
    a.image.width = a.options.width /\ a.image.height = a.options.height

(* The converted image that is stored for a URL and options, if any; the   *)
(* original.                                                               *)
Stored(url, o) ==
  {c.image : c \in {x \in converted : x.key = getImageKey(url, o)}}

Kept(url) ==
  IF url.elsewhere THEN {Original(url, originals[url.id])} ELSE {Original(url, 0)}

(* What was answered as immutable stays: after a request that no other one *)
(* for its URL overlapped, the stores hold what it was answered with, and  *)
(* later requests for the same are answered with it too, though the image  *)
(* elsewhere changes and the service restarts (Cache-Control of            *)
(* proxyHandler).                                                          *)
AnswersImmutable ==
  \A a \in settled :
    IF Stored(a.url, a.options) # {} THEN Stored(a.url, a.options) = {a.image}
    ELSE Kept(a.url) = {a.image} /\ PassThrough(a.image, a.options)

(* What the image service answers is right, and stays so (proxyHandler).   *)
AnswersKept == AnsweredAsAsked /\ AnswersImmutable
=============================================================================
