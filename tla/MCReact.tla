------------------------------ MODULE MCReact ------------------------------
(***************************************************************************)
(* The native side of React for TLC: the frame thread with ReactService's  *)
(* event handler, and the web view components of the two platforms, of     *)
(* which a system has one.  They share no state here: a behaviour is one   *)
(* of the three.                                                           *)
(*                                                                         *)
(* Two handlers of the class of ReactService's messages and two of a       *)
(* category; messages to all categories and a null one to one.             *)
(***************************************************************************)
EXTENDS RenderFrame, WebViewAndroid, WebViewIOS

CONSTANTS react, h1, h2, h3, webview, null

VARIABLE component

MCFilter == (react :> {webview}) @@ (h1 :> {webview}) @@ (h2 :> {"SYSTEM"}) @@ (h3 :> {"SYSTEM"})
MCMessages == {[class |-> webview, category |-> "ALL"],
               [class |-> null, category |-> "SYSTEM"]}

MCInit ==
  /\ Init /\ AndroidInit /\ IOSInit
  /\ component \in {"frame", "Android", "iOS"}

MCNext ==
  \/ component = "frame" /\ Next /\ UNCHANGED <<component, androidVars, iosVars>>
  \/ component = "Android" /\ AndroidNext /\ UNCHANGED <<component, vars, iosVars>>
  \/ component = "iOS" /\ IOSNext /\ UNCHANGED <<component, vars, androidVars>>

MCSpec == MCInit /\ [][MCNext]_<<component, vars, androidVars, iosVars>> /\ Fairness
=============================================================================
