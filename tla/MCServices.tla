----------------------------- MODULE MCServices -----------------------------
(***************************************************************************)
(* The services around playback, model-checked together.  They share no    *)
(* variable, so what one does can neither enable nor disturb another, and  *)
(* it is enough to let one of them run at a time, each from the beginning. *)
(***************************************************************************)
EXTENDS TempPlayback, ShellMailbox, PlexLink, UploadStore, SeerrSessions, Discovery,
        PostliveRelay, IptvGuide, SharedFetches, PlexPlayback

VARIABLE focus  \* the service that runs

Services == {"temporary", "shell", "plex", "uploads", "seerr", "advertising", "browsing",
             "relay", "guide", "thumbnails", "titles", "transcodes", "timeline"}

ServicesInit ==
    /\ focus \in Services
    /\ Init /\ MailboxInit /\ PlexInit /\ UploadInit /\ SeerrInit /\ DiscoveryInit
    /\ RelayInit /\ GuideInit /\ ThumbInit /\ LookupInit /\ PlexPlayInit
    /\ focus # "guide" => tagged = {}

ServicesNext ==
    /\ UNCHANGED focus
    /\ IF focus = "temporary" THEN Next ELSE UNCHANGED tvars
    /\ IF focus = "shell" THEN MailboxNext ELSE UNCHANGED mvars
    /\ IF focus = "plex" THEN PlexNext ELSE UNCHANGED xvars
    /\ IF focus = "uploads" THEN UploadNext ELSE UNCHANGED uvars
    /\ IF focus = "seerr" THEN SeerrNext ELSE UNCHANGED svars
    /\ IF focus = "advertising" THEN AdvertiseNext
       ELSE IF focus = "browsing" THEN BrowseNext ELSE UNCHANGED dvars
    /\ IF focus = "relay" THEN RelayNext ELSE UNCHANGED rvars
    /\ IF focus = "guide" THEN GuideNext ELSE UNCHANGED gvars
    /\ IF focus = "thumbnails" THEN ThumbNext ELSE UNCHANGED hvars
    /\ IF focus = "titles" THEN LookupNext ELSE UNCHANGED yvars
    /\ IF focus = "transcodes" THEN TranscodeNext
       ELSE IF focus = "timeline" THEN TimelineNext ELSE UNCHANGED pvars

ServicesSpec ==
    /\ ServicesInit
    /\ [][ServicesNext]_<<focus, tvars, mvars, xvars, uvars, svars, dvars, rvars, gvars,
                          hvars, yvars, pvars>>
=============================================================================
