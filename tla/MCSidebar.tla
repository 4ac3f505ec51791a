----------------------------- MODULE MCSidebar -----------------------------
(* Sidebar with the default list, one more, and room for a third.          *)
EXTENDS Sidebar
=============================================================================
