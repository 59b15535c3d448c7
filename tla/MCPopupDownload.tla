--------------------------- MODULE MCPopupDownload ---------------------------
(* A watch URL, and a short one of a host that only the popup takes.        *)
EXTENDS PopupDownload

Video == CHOOSE id \in VideoIds : TRUE

MCSources ==
  {Url("https:", "www.youtube.com", "/watch?v=id", Video),
   Url("https:", "www.youtu.be", "/id", Video)}
=============================================================================
