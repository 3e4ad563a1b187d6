----------------------------- MODULE MCRoomFeed -----------------------------
EXTENDS RoomFeed
=============================================================================
