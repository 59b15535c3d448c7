----------------------------- MODULE RequestRules -----------------------------
(***************************************************************************)
(* What the parts of the system take for a valid request: the web form     *)
(* (apps/web/src/domain/download-request/download-request.ts), the API     *)
(* (apps/api/src/downloads/downloads.util.ts for jobs,                     *)
(* apps/api/src/media/media-request.util.ts for direct downloads) and the  *)
(* Chrome popup (apps/chrome-extension/src/domain/download-options).       *)
(* Each has its own copy of the rules; the modules that use them check     *)
(* that the copies agree where one side relies on the other.               *)
(*                                                                         *)
(* A URL is a record of what the rules look at: the protocol, the host in  *)
(* lower case, the shape of the path, and the candidate for the video ID   *)
(* at the place that shape has it.  A text that new URL() refuses is       *)
(* NotAUrl.                                                                *)
(***************************************************************************)
EXTENDS Integers

\* Of all IDs only this one passes /^[a-zA-Z0-9_-]{11}$/.
VideoIds == {"dQw4w9WgXcQ"}

Url(scheme, host, path, id) ==
  [scheme |-> scheme, host |-> host, path |-> path, id |-> id]

NotAUrl == Url("none", "none", "none", "none")
NoText == Url("empty", "empty", "empty", "empty")   \* the empty input

HttpProtocols == {"http:", "https:"}
YoutubeHosts == {"youtube.com", "www.youtube.com"}

IdOrNone(u) == IF u.id \in VideoIds THEN u.id ELSE "none"

-----------------------------------------------------------------------------
(* POST /downloads.                                                        *)

AudioQualities == {128, 192, 320}
VideoQualities == {360, 720, 1080}

\* parseYoutubeVideoId; "none" when it throws.
ParseYoutubeVideoId(u) ==
  IF \/ u.host = "youtu.be" /\ u.path = "/id"
     \/ u.host \in YoutubeHosts /\ u.path \in {"/watch?v=id", "/shorts/id"}
  THEN IdOrNone(u) ELSE "none"

CreateCanonicalYoutubeUrl(id) == Url("https:", "www.youtube.com", "/watch?v=id", id)

\* parseDownloadQuality, without the legacy "default"; 0 when it throws.
ParseDownloadQuality(type, quality) ==
  IF quality \in (IF type = "audio" THEN AudioQualities ELSE VideoQualities)
  THEN quality ELSE 0

-----------------------------------------------------------------------------
(* The web form.                                                           *)

GetDefaultDownloadQuality(mode) == IF mode = "audio" THEN 320 ELSE 1080

\* What the select of the form offers.
QualityOptions(mode) == IF mode = "audio" THEN AudioQualities ELSE VideoQualities

IsSupportedYoutubeUrl(u) ==
  \/ u.host = "youtu.be" /\ u.path = "/id" /\ u.id \in VideoIds
  \/ /\ u.host \in YoutubeHosts /\ u.path \in {"/watch?v=id", "/shorts/id"}
     /\ u.id \in VideoIds

\* downloadDraftSchema: it does not ask whether the quality is one of the mode.
ValidDraft(draft) ==
  /\ IsSupportedYoutubeUrl(draft.url)
  /\ draft.mode \in {"audio", "video"}
  /\ draft.quality \in AudioQualities \cup VideoQualities

-----------------------------------------------------------------------------
(* The popup.                                                              *)

YoutubeShortHosts == {"youtu.be", "www.youtu.be"}

GetYoutubeVideoId(u) ==
  IF /\ u.scheme \in HttpProtocols
     /\ \/ u.host \in YoutubeHosts /\ u.path \in {"/watch?v=id", "/shorts/id"}
        \/ u.host \in YoutubeShortHosts /\ u.path = "/id"
  THEN IdOrNone(u) ELSE "none"

\* normalizeSourceUrl; NotAUrl when it throws.  A watch URL passes as it is.
NormalizeSourceUrl(u) ==
  IF GetYoutubeVideoId(u) = "none" THEN NotAUrl
  ELSE IF u.host \in YoutubeHosts /\ u.path = "/watch?v=id" THEN u
  ELSE CreateCanonicalYoutubeUrl(u.id)

-----------------------------------------------------------------------------
(* GET /audio and GET /video.  File name and numbers are left out.         *)

\* createUrlMediaSource: any http(s) URL, and no question of its host.
CreateUrlMediaSource(u) == IF u.scheme \in HttpProtocols THEN u ELSE NotAUrl
===============================================================================
