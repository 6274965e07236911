----------------------------- MODULE MCItemsApi -----------------------------
(* The model values of the small instance are in its cfg file.              *)
EXTENDS ItemsApi
=============================================================================
