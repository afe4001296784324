---------------------------- MODULE MCDownloader ----------------------------
(* Downloader for TLC: what the unset limit may hold.                      *)
EXTENDS Downloader

MCLimits == {-1, 1}
=============================================================================
