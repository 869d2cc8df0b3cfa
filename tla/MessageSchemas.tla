--------------------------- MODULE MessageSchemas ---------------------------
(****************************************************************************)
(* The messages of the protocol, field by field. A message that carries     *)
(* another one has the fields of the other at that place.                   *)
(****************************************************************************)
EXTENDS Messages

Name(name)    == Field(name, Kind("name"))
NetId(name)   == Field(name, Kind("netid"))
Trimmed(name, n) == Field(name, [k |-> "trimmed", n |-> n])

BytesMessage            == <<Bytes("data")>>
PlayerIdMessage         == <<U16("player_id")>>
ClientMetaDataMessage   ==
  <<Name("player_uuid"), Name("player_display_name"), Name("player_platform")>>
ClientAvatarChangeMessage ==
  <<U8("load_mode"), Bytes("byte_array"), U8("local_avatar_index")>>

\* The quality says how long the array is.
LocalAvatarSyncMessage  ==
  <<U8("data_quality_level"),
    Field("array", [k |-> "pose", quality |-> "data_quality_level"]),
    Field("additional_avatar_datas", Kind("extras"))>>

ReadyMessage ==
  ClientMetaDataMessage \o ClientAvatarChangeMessage \o LocalAvatarSyncMessage

\* The permissions are bits for the known nodes, and the others packed together, if any.
ServerMetaDataMessage ==
  ClientMetaDataMessage \o
  <<Words("rates", 5), Bytes("bitset"), U16("extra_count"),
    When(Bytes("extras"), "extra_count", 1 .. (Limit(2) - 1))>>

ServerReadyMessage      == PlayerIdMessage \o ReadyMessage
NetIdMessage            == <<NetId("net_id")>>
UshortUniqueIdMessage   == <<U16("unique_id_ushort")>>
ServerNetIdMessage      == NetIdMessage \o UshortUniqueIdMessage
ServerUniqueIdMessages  == <<List("messages", 2, ServerNetIdMessage)>>

ChatMessage             == <<Field("payload", Kind("chat"))>>
ServerChatMessage       == <<U16("player_id")>> \o ChatMessage
AudioSegmentDataMessage == <<Rest("audio_segment")>>
ServerAudioSegmentMessage == <<U16("player_id"), Rest("audio_segment")>>
ServerAudioSegmentSmall   == <<U8("player_id"), Rest("audio_segment")>>

ServerSideSyncPlayerMessage ==
  <<U16("player_id"), U8("interval"), U8("sequence")>> \o LocalAvatarSyncMessage

Recipients == List("recipients", 2, <<U16("id")>>)
AvatarDataMessage ==
  <<U16("player_id"), U8("avatar_link_index"), U8("message_index"), Recipients, Rest("payload")>>
RemoteAvatarDataMessage ==
  <<U16("player_id"), U8("avatar_link_index"), U8("message_index"), Rest("payload")>>
ServerAvatarDataMessage   == <<U16("sender")>> \o RemoteAvatarDataMessage
ServerAvatarChangeMessage == <<U16("player_id")>> \o ClientAvatarChangeMessage

VoiceReceiversMessage      == <<List("users", 1, <<U16("id")>>)>>
VoiceReceiversMessageLarge == <<List("users", 2, <<U16("id")>>)>>

\* A prop has a place, a scene has none.
LocalLoadResource ==
  <<U8("mode"), Text("loaded_net_id"), Text("unlock_password"), Text("combined_url"),
    Text("uuid_of_creator"), Bool("is_admin_locked"), Bool("persist"), Bool("modify_scale"),
    U8("load_strategy"), When(Words("place", 10), "mode", {0})>>

SceneDataMessage        == <<U16("message_index"), Recipients, Rest("payload")>>
RemoteSceneDataMessage  == <<U16("message_index"), Rest("payload")>>
ServerSceneDataMessage  == <<U16("player_id")>> \o RemoteSceneDataMessage
UnloadResource          == <<U8("mode"), Text("loaded_net_id")>>
PreloadReadyMessage     == <<Text("loaded_net_id"), Bool("is_ready")>>
SpawnPreloadedMessage   == <<Text("loaded_net_id")>>

DatabasePrimitiveMessage == <<Text("name"), Field("json_payload", Kind("entries"))>>
DataBaseRequest          == <<Text("database_id")>>
ErrorMessage             == <<Text("message")>>

BasisAvatarCloneRequest  == <<U16("requesting_user")>>
BasisAvatarCloneResponse == <<U16("requesting_user")>>
OwnershipTransferMessage == <<U16("player_id"), Text("ownership_id")>>

\* ContentShareType: an unknown one is an avatar
ContentShareTypes == 4
ContentShareMessage ==
  <<Text("sphere_net_id"), Text("content_url"), Text("unlock_password"),
    Enum("content_type", ContentShareTypes), Words("position", 3)>>
ServerContentShareMessage ==
  <<U16("player_id"), Text("sharer_uuid"), Text("sharer_display_name")>> \o ContentShareMessage
ContentShareCleanupMessage       == <<Text("sphere_net_id")>>
ServerContentShareCleanupMessage == <<U16("player_id")>> \o ContentShareCleanupMessage

\* A camera has a place while it is active.
CameraPlace                    == Words("place", 7)
CameraPipStateMessage          ==
  <<U16("player_id"), Bool("is_active"), When(CameraPlace, "is_active", {TRUE})>>
ClientCameraPipStateMessage    == Tail(CameraPipStateMessage)
CameraPipPositionMessage       == <<U16("player_id"), CameraPlace>>
ClientCameraPipPositionMessage == <<CameraPlace>>
CameraShutterSoundMessage      == <<U16("player_id")>>
CameraCountdownMessage         == <<U16("player_id"), U8("seconds")>>
ClientCameraCountdownMessage   == <<U8("seconds")>>

ServerStatisticMessage  == <<Rest("data")>>
ServerLibraryItem       == <<U8("mode"), Text("url"), Text("password")>>
ServerLibraryMessage    == <<List("items", 2, ServerLibraryItem)>>
ConsoleData             == <<U8("message_index"), Bytes("array")>>
AvatarLoadDataMessage   == <<U8("message_index"), U16("who_sent_us_this"), Bytes("payload")>>

\* AdminRequestMode: an unknown one is Ban
AdminRequestModes       == 42
AdminRequest            == <<Enum("mode", AdminRequestModes)>>
BasisP2PSignalMessage   == <<U16("other_player_id"), Text("session_token")>>

\* put_raw_len_string has no one added to the length.
AvatarNetworkLoad       == <<Bytes("url"), Bytes("unlock_password")>>

ServerInfoResponse ==
  <<Words("magic", 1), U16("protocol"), U16("nonce"), U16("online"), U16("max"),
    Trimmed("name", NameMax), Trimmed("motd", 4 * NameMax)>>

\* The packet of an avatar that pre_serialize makes, with a large id or a small one
AvatarPacket(large) ==
  <<Number("player_id", IF large THEN 2 ELSE 1), U8("interval"), U8("sequence"), Rest("payload")>>

Schemas ==
  {BytesMessage, PlayerIdMessage, ClientMetaDataMessage, ClientAvatarChangeMessage,
   LocalAvatarSyncMessage, ReadyMessage, ServerMetaDataMessage,
   ServerReadyMessage, NetIdMessage, UshortUniqueIdMessage, ServerNetIdMessage,
   ServerUniqueIdMessages, ChatMessage, ServerChatMessage, AudioSegmentDataMessage,
   ServerAudioSegmentMessage, ServerAudioSegmentSmall, ServerSideSyncPlayerMessage,
   AvatarDataMessage, RemoteAvatarDataMessage, ServerAvatarDataMessage,
   ServerAvatarChangeMessage, VoiceReceiversMessage, VoiceReceiversMessageLarge,
   LocalLoadResource, SceneDataMessage, RemoteSceneDataMessage, ServerSceneDataMessage,
   UnloadResource, PreloadReadyMessage, SpawnPreloadedMessage, DatabasePrimitiveMessage,
   DataBaseRequest, ErrorMessage, BasisAvatarCloneRequest, BasisAvatarCloneResponse,
   OwnershipTransferMessage, ContentShareMessage, ServerContentShareMessage,
   ContentShareCleanupMessage, ServerContentShareCleanupMessage, CameraPipStateMessage,
   ClientCameraPipStateMessage, CameraPipPositionMessage, ClientCameraPipPositionMessage,
   CameraShutterSoundMessage, CameraCountdownMessage, ClientCameraCountdownMessage,
   ServerStatisticMessage, ServerLibraryMessage, ConsoleData, AvatarLoadDataMessage,
   AdminRequest, BasisP2PSignalMessage, AvatarNetworkLoad, ServerInfoResponse,
   AvatarPacket(TRUE), AvatarPacket(FALSE)}
=============================================================================
