--------------------------- MODULE WebViewAndroid ---------------------------
(***************************************************************************)
(* The web view component on Android (XLNReactWebView, WebViewManager):    *)
(* the callbacks of a page's life, the events sent to the React side and   *)
(* the message bridge of the page.  All of it runs on the main thread.     *)
(*                                                                         *)
(* External: android.webkit.WebView reports a page by onPageStarted, then  *)
(* onReceivedError if it fails, then onPageFinished; a page that another   *)
(* replaces is not reported any more, nor any after setWebViewClient(null).*)
(* Injected scripts and settings, on which no event depends, are left out. *)
(***************************************************************************)
EXTENDS Naturals, Sequences

CONSTANTS
  Views,    \* ReactWebView objects
  Urls,     \* addresses that a source property names
  NoUrl     \* the address of an HTML text, of a blank page and of no page

VARIABLES
  view,      \* "none", "live", "destroyed" by the host, "dropped"
  url,       \* WebView.getUrl
  page,      \* the page of a view: "none", "asked", "loading", "failed", "done"
  failed,    \* mLastLoadFailed
  seen,      \* the finish and error events since the last onPageStarted
  messagingEnabled,
  bridged    \* window.postMessage of the page is the bridge's

androidVars == <<view, url, page, failed, seen, messagingEnabled, bridged>>

AndroidInit ==
  /\ view = [v \in Views |-> "none"]
  /\ url = [v \in Views |-> NoUrl]
  /\ page = [v \in Views |-> "none"]
  /\ failed = [v \in Views |-> FALSE]
  /\ seen = [v \in Views |-> <<>>]
  /\ messagingEnabled = [v \in Views |-> FALSE]
  /\ bridged = [v \in Views |-> FALSE]

-----------------------------------------------------------------------------
(* createViewInstance and addEventEmitters.                                *)
CreateView(v) ==
  /\ view[v] = "none"
  /\ view' = [view EXCEPT ![v] = "live"]
  /\ UNCHANGED <<url, page, failed, seen, messagingEnabled, bridged>>

(* onHostDestroy and onDropViewInstance: cleanupCallbacksAndDestroy, on    *)
(* drop also of a view the host has destroyed.                             *)
Destroy(v, state) ==
  /\ view[v] \in {"live", "destroyed"} \ {state}
  /\ view' = [view EXCEPT ![v] = state]
  /\ page' = [page EXCEPT ![v] = "none"]
  /\ UNCHANGED <<url, failed, seen, messagingEnabled, bridged>>

HostDestroy(v) == Destroy(v, "destroyed")
DropView(v) == Destroy(v, "dropped")

(* setSource: an address the view shows already is not loaded again; an    *)
(* HTML text is, and no source is a blank page.                            *)
SetSource(v, source) ==
  /\ view[v] = "live"
  /\ source \in Urls => url[v] # source
  /\ url' = [url EXCEPT ![v] = source]
  /\ page' = [page EXCEPT ![v] = "asked"]
  /\ UNCHANGED <<view, failed, seen, messagingEnabled, bridged>>

(* receiveCommand: goBack, goForward and reload ask for a page, as a link  *)
(* does; stopLoading takes back what has not started.                      *)
ReceiveCommand(v) ==
  /\ view[v] = "live"
  /\ \/ page[v] \in {"failed", "done"} /\ page' = [page EXCEPT ![v] = "asked"]
     \/ page[v] = "asked" /\ page' = [page EXCEPT ![v] = "none"]
  /\ UNCHANGED <<view, url, failed, seen, messagingEnabled, bridged>>

(* setMessagingEnabled: enabling it links the bridge to the page at once;  *)
(* disabling it leaves window.postMessage as it is.                        *)
SetMessagingEnabled(v, enabled) ==
  /\ view[v] = "live"
  /\ messagingEnabled[v] # enabled
  /\ messagingEnabled' = [messagingEnabled EXCEPT ![v] = enabled]
  /\ bridged' = [bridged EXCEPT ![v] = @ \/ enabled]
  /\ UNCHANGED <<view, url, page, failed, seen>>

-----------------------------------------------------------------------------
(* Fault: mLastLoadFailed keeps its value.                                 *)
OnPageStartedKeeps(v) ==
  /\ page[v] \in {"asked", "loading"}
  /\ page' = [page EXCEPT ![v] = "loading"]
  /\ seen' = [seen EXCEPT ![v] = <<>>]
  /\ bridged' = [bridged EXCEPT ![v] = FALSE]
  /\ UNCHANGED <<view, url, failed, messagingEnabled>>

(* onPageStarted; a page that is loading may be redirected.  The new page  *)
(* has a window of its own.                                                *)
OnPageStarted(v) ==
  /\ page[v] \in {"asked", "loading"}
  /\ page' = [page EXCEPT ![v] = "loading"]
  /\ failed' = [failed EXCEPT ![v] = FALSE]
  /\ seen' = [seen EXCEPT ![v] = <<>>]
  /\ bridged' = [bridged EXCEPT ![v] = FALSE]
  /\ UNCHANGED <<view, url, messagingEnabled>>

(* onReceivedError: a finish event, then the error.                        *)
OnReceivedError(v) ==
  /\ page[v] = "loading"
  /\ page' = [page EXCEPT ![v] = "failed"]
  /\ failed' = [failed EXCEPT ![v] = TRUE]
  /\ seen' = [seen EXCEPT ![v] = @ \o <<"finish", "error">>]
  /\ UNCHANGED <<view, url, messagingEnabled, bridged>>

(* onPageFinished: linkBridge and the finish event, unless the page failed.*)
OnPageFinished(v) ==
  /\ page[v] \in {"loading", "failed"}
  /\ page' = [page EXCEPT ![v] = "done"]
  /\ IF failed[v] THEN UNCHANGED <<seen, bridged>>
     ELSE /\ seen' = [seen EXCEPT ![v] = Append(@, "finish")]
          /\ bridged' = [bridged EXCEPT ![v] = @ \/ messagingEnabled[v]]
  /\ UNCHANGED <<view, url, failed, messagingEnabled>>

AndroidNext ==
  \/ \E v \in Views : \/ CreateView(v) \/ HostDestroy(v) \/ DropView(v) \/ ReceiveCommand(v)
                      \/ OnPageStarted(v) \/ OnReceivedError(v) \/ OnPageFinished(v)
  \/ \E v \in Views, u \in Urls \cup {NoUrl} : SetSource(v, u)
  \/ \E v \in Views, b \in BOOLEAN : SetMessagingEnabled(v, b)

AndroidSpec == AndroidInit /\ [][AndroidNext]_androidVars

-----------------------------------------------------------------------------
(* "In case of an error JS side expect to get a finish event first, and    *)
(* then get an error event" (WebViewManager.java:171): whatever pages,     *)
(* redirects and failures came before, a page that has ended has told the  *)
(* React side so once, and last of its error; and a page that ended well   *)
(* can post messages if messaging is enabled, whenever it was enabled.     *)
LoadEventsPaired ==
  \A v \in Views :
    /\ page[v] = "loading" => seen[v] = <<>>
    /\ page[v] = "failed" => seen[v] = <<"finish", "error">>
    /\ page[v] = "done" => \/ seen[v] = <<"finish", "error">>
                           \/ seen[v] = <<"finish">> /\ (messagingEnabled[v] => bridged[v])
=============================================================================
