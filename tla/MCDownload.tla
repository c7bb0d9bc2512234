---- MODULE MCDownload ----
EXTENDS DownloadProperties
====
