----------------------------- MODULE MCUploads -----------------------------
EXTENDS Uploads
CONSTANTS x, y
=============================================================================
