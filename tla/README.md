# TLA+ verification of the Parallax WX WiFi module firmware

The program is the firmware of the Parallax WX ESP8266 module (Parallax-ESP). It
lets a Propeller microcontroller (the MCU) serve web pages and use TCP, UDP and
WebSockets through a serial protocol (SSCP), loads programs into the Propeller
over WiFi, keeps files and settings in NOR flash and bridges a telnet port to
the serial port. It runs on the non-OS SDK: one thread, in which network, timer
and serial callbacks run to completion one after another. What is hard about it
is therefore not preemption but the order in which callbacks and commands come,
pointers kept between them, and resets in the middle of a flash sequence.

## Contents

| file | what it is |
|---|---|
| `FlashConfig`, `SettingsStore` | settings in two flash sectors; the durable register they implement |
| `Settings` | SET and POST of the settings that set up the serial lines |
| `SscpFilter`, `SscpFraming` | the parser between UART and commands; the framing it implements |
| `SscpHttp` | HTTP requests served by the MCU, with the web server's callbacks |
| `SscpNet` | TCP, UDP and WebSocket handles, with commands and callbacks |
| `WsFrame`, `WsStream` | the WebSocket frame parser; the stream of messages it implements |
| `Httpd` | one connection of the web server: request, CGI, answer |
| `OtaUpload`, `WebLog` | firmware upgrades; the log in memory and the page that follows it |
| `PropLoader`, `Button` | the Propeller loader; the debouncing of the buttons |
| `Roffs`, `RoffsStore` | the flash file system under its HTTP handlers; the file store it implements |
| `Serbridge`, `Wifi` | UART and telnet connections; scanning, joining and the mode of the station |
| `MC*.tla`, `MC*.cfg` | instances for TLC |
| `*Proofs.tla` | theorems, with proofs for TLAPS |
| `PROJECT.json` | components, runs, mutants, source lines per definition, findings, hazards, theorems |

A definition with the name of a C function models that function; a definition
under a comment that begins with `Mutant` is not part of a specification: it is
a plausible bug of the definition below it, and shows that a property notices it.

## Inventory

**Settings in flash** (`esp-link-stuff/config.c`, `parallax/sscp-settings.c`).
State: `flashConfig` in RAM, two flash sectors, `flash_pri`. Operations:
configSave, configRestore, configRestoreDefaults, the SET/SAVE/RESTORE commands
and the `/wx/*-settings` requests. Hard: power loss between six flash operations,
each of which may report an error. Correct when the boot after a reset loads the
last settings saved, and nothing is lost that was reported as saved (the code breaks
this promise once: finding 1).

**SSCP parser** (`parallax/sscp.c`, called from `uart.c`). State: parser state,
the command buffer with its spare room, the payload counter, `sscp_processing`,
`sscp_enable`. Operations: sscp_filter per chunk, sscp_capturePayload,
sendToMCU, break, enable switch. Hard: a chunk may end at any byte, tokens are
expanded in place in the buffer they are read into, loop pointers are moved
inside of the loop. Correct when no byte is lost, none is written behind the
buffer, commands do not overlap and a payload takes exactly the bytes asked for.

**SSCP HTTP** (`parallax/sscp-http.c`, `sscp-cmds.c`). State: four handles
(`sscp_connections`) shared with TCP, UDP and WebSockets, each with flags and
counters. Operations: the CGI called by the web server (request, POST buffer,
sent, cleanup), REPLY, SEND, CLOSE, POLL, ARG, PATH. Hard: the request's memory
belongs to the server, and the server, the MCU and a break each end it in their
own time. Correct when a request and its handle point to each other or not at
all, an answer is confirmed before its handle goes, and each SEND is answered.

**Web server core** (`libesphttpd/core`). State: connection pool, send backlog,
POST buffer, the CGI and its data. Calls the CGIs of all the components and
gets callbacks from espconn. Correct when each request is served once, the
backlog is sent in order and a closed connection's CGI is told.

**SSCP TCP, UDP, WebSockets** (`sscp-tcp.c`, `sscp-udp.c`, `sscp-ws.c`,
`cgiwebsocket.c`). State: handles as above with a receive buffer of 1 KB; the
frame parser's state and mask. Operations: CONNECT with DNS, SEND, RECV, CLOSE,
POLL; espconn callbacks; frames cut anywhere. Hard: late callbacks for a handle
that was given away, a buffer that fills while the MCU reads, a SEND in flight
when the peer goes. Correct when each command is answered, data is delivered in
order and once, and a handle that is closed stays closed.

**Propeller loader** (`parallax/cgiprop.c`, `proploader.c`). State: the load
state, serial receive expectations, timer, retries, the HTTP connection that
waits for the answer, the file being loaded. Hard: timer, serial data, HTTP
cleanup and buttons meet in one state machine that takes the UART away from
SSCP. Correct when every load ends and is answered once, SSCP comes back, and
the image sent is the one checked.

**Flash file system** (`parallax/roffs.c`, `httpdroffs.c`, `sscp-fs.c`). State:
the log in flash, `ROFFS_FILE` of each open file. Operations: upload, download,
format, listing, mount at boot. Hard: NOR flash can only clear bits; resets and
errors between flash operations; several connections with files open. Correct
when a name stands for a whole upload, open downloads stay intact and the log
can always be extended.

**Serial lines** (`parallax/sscp-settings.c`, `uart.c`). State: the settings,
the registers of two UARTs, what `uart.c` remembers of the registers. Operations:
SET and POST of rates and stop bits, restore, boot, and the load of the Propeller
that takes the line over and gives it back. Hard: a rate is written only when it
differs from the remembered one. Correct when a line runs as it is set.

**Serial bridge** (`serbridge.c`, `uart.c`). State: the receive FIFO, its
interrupt and task; four telnet connections with two transmit buffers each and
`readytosend`. Operations: interrupt, task, break, connect, sent and disconnect
callbacks. Hard: the network may refuse a buffer, and the bytes wait for a callback
that then never comes. Correct when bytes are sent in order and a connection that
waits is watched.

**WiFi manager** (`cgiwifi.c`, `sscp-wifi.c`). State: scan in progress, its list,
the deferred change of mode, connect and reset timers. Operations: scans by pages
and by APSCAN, pages that read the list in parts, mode changes, joining. Hard: one
list, several askers, scans that fail. Correct when a scan ends and its result is
not freed in use, and a join is decided.

**Buttons** (`cgiprop.c`). State: sampled levels, counted presses, timers.
Operations: samples; the last of a series of presses starts a load or restores the
network. Correct when a press counts once, and the button comes back after the load.

**Firmware upgrade** (`cgiflash.c`). State: `UploadState` per connection, two parts
of the flash, the reset timer. Hard: chunks cut anywhere, two uploads into one part,
flash errors that are not looked at. Correct when what is marked as done is what
was sent.

**Log** (`log.c`, `console.js`). State: a ring of characters with their numbers, the
place the page goes on from. Correct when the page gets each character under its
own number and the answer stays in its buffer.

**Discovery, status, captive DNS, authentication, espfs, image tools, web
pages**: see the notes in PROJECT.json. They have next to no state of their own
or are third-party code.

The components meet in three places: `sscp_filter` (UART to commands), the slot
table `sscp_connections` (commands to callbacks), and the CGI interface (web
server to everything). `sscp_enable` is written by the loader, the settings and
a break, and read by the parser once per chunk.

The hazards found in the survey are in PROJECT.json, each at its line and with
the properties that cover it.

## What is modelled

### FlashConfig

`configSave` is six flash operations; `pc` names the next one, and each is an
action that may report an error when the operation is in `Faults`. `Boot` may
come at any time and may spoil the sector the operation works on. A sector is
`Bad` or a pair of sequence number and settings; the CRC is that distinction.
`stored`, `unsettled` and `reported` are history: the settings of the last save that
left one copy only, for it had erased the old one, those of saves begun since, and those
of the last save that returned true.

`Recoverable` says what the next boot may load at every moment, and `DurableOnceSettled`
that a save which returned true with the old copy erased is what a boot loads, whatever
failed. `DurableOnceReported` leaves the condition out; that is what the comment at
config.c:120 says, and the code does not keep it (finding 1). `SettingsStore` is a
durable register with unsettled saves, and `ImplementsStore` the refinement.

### SscpFilter

One action is one iteration of the loop of `sscp_filter`. Bytes are classes
(start, CR, character, the integer tokens, a name token); pointers are
distances: `window` = p - start, `len` the counter, `left` what is really left
of the chunk. The lengths of a number's text and of a name are kept, since they
are what the in-place expansion is about. `sent`, `oob`, `eaten` and `paid`
count where bytes went. `NoRoom...` are the iterations in which the separator
did not fit and the code moves p a second time; they set `garbled`. A payload of no bytes
is taken as the code takes it: `remaining` goes below zero, and the capture has no end
but a break. `SscpFraming` says the same of an abstract parser: a payload that needs
nothing takes everything.

### SscpHttp

Cells are addresses of the server's `HttpdConnData`, slots the handles. One
action is one callback of the server or one command; the payload of a REPLY or
SEND comes in a later step (`capture`). The heap may give a freed cell to the
next request, so a slot that still points to it (`Dangling`) can meet another
request. When the code would read freed memory the model stops in `wild`.
`mcu` is what the MCU has been told of each handle. `ReplyRoom` is what the headers leave
of the 1024 bytes of `sendBuff`: a body that is longer is dropped by httpdSend, and
`settled` counts the bytes of a handle that were confirmed or dropped. A POLL looks at
the handles of its mask, which is any set. Request parsing, ARG, PATH
and RECV, which change no state, and the listener match are left out.

### Roffs

The file system is a function from cells to headers, names or data. A handler
(`Create`, `Write`, `Cleanup`, `Format`) puts the flash operations it makes in
`todo`, in the order of the code; `Erase` and `Program` do the first of them (a write
into a new sector erases it before), and `FlashError` or `Reset` can come before each.
A write that would set a bit leaves `Garbled`. `Log` is the set of places the walk from
header to header comes to, which open, create and the listing (FCOUNT, FINFO) share;
since no header lies inside of a file, the order of the walk is the order of the
places, and the first and the last version of a name are the least and the greatest.
`ListingIsTrue`, a part of `LogIsSound`, compares what the listing shows with what
opening a file finds. A header, a name, and a word of data are one cell each; a header
that is written in part is not in the model. The model ends (`wild`) where the code
has left what it can repair: at the recovery of a leftover upload, whose writes
go outside of the file system; at a reset or error between the header and the
terminator of a file; and at a format under an open file.

`Strip` is the name a file is looked up by: roffs_open takes the '/' off the front and
roffs_create does not. So the names with one are stored, listed, never found and never
replaced; `Plain` are the others, and `ListingIsTrue`, the draft and the refinement are
about them. An upload under such a name deletes the file it would be looked up as.

`RoffsStore` maps names to whole files. Whole is what was received: an upload the client
breaks off is closed and published with what has come (httpdroffs.c:148-152). `Visible` hides the few operations in
which the log has no terminator, which no handler can observe.

### PropLoader and Button

There is one `load` (`myConnection`), and everything that may touch it is an action:
the requests (`cgiPropLoad`, `cgiPropLoadFile`, `cgiPropReset`) and their end
(`Close`), FRUN, the CTS button, one action for each state of `timerCallback`, and
`readCallback` for the bytes of the Propeller in pieces of any size. Images,
handshakes and responses are counts; whether an answer is right is a choice. Time is
left out: an armed timer fires at some later step. A file is encoded segment by
segment, an image in one piece from the POST buffer of its request, whose cell may
be freed meanwhile. The response a request asks for has the size it says, and may be
larger than the buffer. The model stops in `wild` where the code uses freed memory or
writes behind the buffer.

`excuses` remembers what befell the load in progress, and the properties name the
excuse they allow: its client went away (`closed`), the flash failed between two
segments (`read`), a request that was refused changed the encoding (`mode`). `Served`
ties a waiting request to the load in progress; `ButtonComesBack` says that sampling
starts again; `LoadEnds` that a load does not hang; `NoMoreThanAsked` that what is taken
of the line is the handshake, which fits, and then what the request asked for. `Button` is the debouncing both
buttons have, with `steady` as an independent count of equal samples.

### SscpNet

A slot of `sscp_connections` has the code's fields (`type`, `flags`, `state`,
`rxCount`, `rxIndex`) and the SDK's side of it: a name being looked up (`lookup`),
what there is of the socket (`net`), whether the transmit buffer is on its way
(`sending`). Each command and each callback is one action; the SDK calls back once
for what it was asked. `pending` is the handle whose command waits for its reply and
`payload` the one whose bytes are captured. `stray` remembers a reply nobody asked for.
The SDK's side stays with a slot that was given back: its DNS answer, its connect and its
error callback come late, and the code replies or connects as if the handle were in use
(`late`). `failed` says that an established TCP connection broke, whose error callback
replies too. A slot that is given to a new owner while the SDK still holds a pointer to
it ends the model (`astray`), since what the callback then does depends on the new owner's
union; so does a callback that goes through a null pointer.

### WsFrame and Httpd

Both work on a stream the network cuts anywhere. `FrameBytes` in `WsFrame` and `Receive`
in `Httpd` begin a segment; the
steps of the receive function follow, a header byte or a stretch of bytes each, and
nothing else happens until the segment is used up, as in the code. `WsFrame` parses
headers of all three lengths, masks, pings, closes and continuation frames; the mask
is the count of bytes it was applied to, so that a piece is readable (`clear`) when
the count is right. `WsStream` is the promise: consecutive pieces of one frame at a
time, and nothing after the end. `Httpd` has one request per connection, since
HFL_CHUNKED is never set; a CGI may send, ask for more or be done at each call, or
act from a callback of its own. Buffers of the answer are numbered, and the backlog
is bounded in buffers. `silent` marks a CGI that is done in a sent callback in which
it sent nothing, as a download is whose size is a multiple of 1024. In `WsFrame` a
client may go on after the handler returned DONE: the code calls it again with a
WebSocket that was freed, and the model stops in `wild`; `ending` remembers which frame
it was done with.

### OtaUpload and WebLog

`OtaUpload` has one step per round of the loop of `cgiUploadFirmware`: header, skip,
bytes into the page, page into the flash. A page of the flash is the sequence of
numbers of the bytes in it, so that a hole, an overlap or a page of another upload
shows. The flash is one row of pages in which both parts lie: the lengths in a header are
any numbers, an image may run over its part into what lies behind and to the end of the
flash, and where the code uses bytes that are not of the body the model stops
(`offBody`). `WebLog` numbers the characters ever written; `ajaxLog` is the handler with
`updateText` of the page, and characters have the width they take in JSON. `SendRoom`
is what the headers of the response leave of the send buffer: an answer that does not
fit is dropped, and the page, which gets an empty body, asks for the same text again.

### Serbridge, Settings and Wifi

`Serbridge` has the UART's interrupt, task and break, and for each connection the two
buffers; `owed` counts what was taken from the UART for it and not yet confirmed, and
`lost` marks bytes that did not fit, were refused or found no memory.
`Settings` keeps what the registers say beside what `uart.c` takes for it; `astray`
marks the lines the property does not mean, each case with its reason at
`LineAsSet`. `Wifi` counts scans the SDK is working on and access points; the timers
of the mode change, of joining (one for pages and one for the MCU) and of the reset are
flags. The SDK may refuse a scan, which nobody looks at (`unbegun`), and the last call
for a page that is gone reads on and may begin a scan, as the code's does.

### Instances of several parts

`MCWeb` (`Httpd`, `WsFrame`, `OtaUpload`, `WebLog`, `Wifi`) and `MCSerial`
(`SscpFilter`, `Serbridge`, `Settings`) extend parts that share no variable and whose
only link, the call of a CGI or the bytes the filter passes on, is a free choice on both
sides. To interleave such parts
multiplies their states and adds no behaviour to any of them, so that each behaviour
of these instances follows one part (`followed`) while the others rest. Interactions
are inside of the modules: commands, callbacks and payloads in `SscpNet` and
`SscpHttp`, requests, commands, button, timer and UART in `PropLoader`, pages, MCU and
mode in `Wifi`.

## Runs

| run | instance | shows |
|---|---|---|
| `flash_config` | three settings, sequence numbers 1 to 4, every flash operation of a save may fail | a reset or an error at any moment of a save; the durable register |
| `flash_config_erase` | two settings, the erase of the old copy may fail | a save that returned true is lost at the next boot (finding) |
| `serial` | the parser: buffer of 5, names of 2 and 4, payloads of 0 to 2, chunks of up to 3, 9 bytes; 2 telnet connections with buffers of 3, FIFO of 2; two numbers to set, one beyond a byte | parser safety and refinement; nothing lost in the bridge, waiting bytes watched; lines as set |
| `sscp_http` | 2 slots, one cell, events on or off, POST bodies | linked handles, no leaks |
| `sscp_http_events` | 2 slots, 2 cells, overlapping SENDs, empty payloads, replies that do not fit, events on | handle kept until all is confirmed or dropped, order of events, each SEND answered |
| `sscp_http_post` | a POST body of two buffers | an 'S' for a request nobody answered (finding) |
| `sscp_http_freed` | events off | a freed request is used (finding) |
| `sscp_net` | 2 slots, a listener, receive buffer of 3, pieces of 0 and 2, events on or off | unread data stay announced, buffers and messages are kept, replies match commands, commands are answered |
| `prop_loader` | 2 requests, files of 0 and 3, handshake and buffer of 2, responses of 0, 2 and 3, one retry, threshold 1, series of 2 presses | one load at a time, each served, encoded once and ended; bytes taken; the button |
| `web` | ten kinds of frames; bodies of 0 to 5; two uploads, three pages per part, seven of flash, eight files; a log ring of 4; 2 browsers, 2 access points | refinement of `WsStream`, closing; answers and bodies in order; a finished upgrade is whole; the log's page; one scan, reported; joins decided |
| `roffs` | two sectors of 4 cells, buffers of 3, three names of which one is another with a '/' in front, one value, two connections | flash discipline, downloads, listing, refinement |
| `roffs_leftover` | the same | the place behind a leftover upload is wrong (finding) |

Why the bounds are enough to be of interest:

* *FlashConfig.* Two sectors are the real number. Three settings tell apart the
  saved, the new and the default ones. The code compares sequence numbers and
  adds one; four of them give every order of the two copies, and the defaults'
  number below, equal to and above a copy's. A save at the bound is not begun.
* *SscpFilter.* A buffer of 5 lets every token fit, fit exactly and not fit; the
  text of a 32-bit number is longer than the whole buffer and reaches far into
  the spare room. Chunks of 3 cut every token. Nine bytes hold a whole command with
  a number, its answer and the text or command behind it. Payloads of 0, 1 and 2 are the
  one without an end, one that ends with its first byte and one that does not.
* *SscpHttp.* One cell with two slots is the smallest instance in which a freed
  request's memory is used again while the old handle is alive. Two cells add
  two requests at the same time. With a total of 2 and SENDs of 0 and 1 an answer takes
  two buffers, an empty payload never ends, and one that is too long is refused; with
  room for 1 behind the headers a REPLY of 1 fits and one of 2 is dropped. A backlog of 1
  overflows when SENDs overlap.
* *SscpNet.* Two slots let one handle be reused beside a live one, of any pair of
  types. Two pieces of 2 overflow a buffer of 3, one is read in parts, and a piece of
  0 is the empty message a WebSocket may get.
* *PropLoader.* Two cells let a second request meet a load, outlive its client or
  take the freed cell of the first. A file of 3 is two segments in one mode and three
  in the other; 0 is the empty file. A response of 2 fills the buffer, one of 3 overruns it. One
  retry gives success, retry and failure of the checksum. Cells are symmetric, but
  the run has a liveness property, so that no symmetry is used.
* *WsFrame, Httpd.* Lengths cross the cut of every segment length: a segment ends in
  the header, in the mask, in the payload and behind it, and holds several frames'
  bytes. `Base` 2 in place of 256 makes the lengths of 2 and 8 bytes small numbers.
  Bodies are shorter than, equal to and more than twice the POST buffer; four
  buffers of an answer fill and overflow a backlog of 2.
* *OtaUpload, WebLog.* Images end inside and at the end of a page, fill their part, run
  over it, and run out of the flash; headers have lengths of zero, below zero and more
  than the body, and one body is shorter than its header. The ring wraps
  twice before `MaxLog`, and a character of width 6 comes when the answer is nearly
  full; the answer fits the send buffer, does not fit it, and is cut.
* *Roffs.* Sectors of 4 cells and buffers of 3 let a header, a name, a buffer
  and a terminator each begin a sector, and a buffer cross into one; two sectors
  let a file be replaced while the old one is read, and let stale content lie
  behind a format. One value is enough: a cell is written once after its erase, or is
  `Garbled`, so that what is read at a wrong place shows as a header, a name or a length.
  Three names are two that are found and one that is stored in vain. The
  connections are symmetric: the code only compares them.
* *Bridge, Settings, Wifi.* A buffer of 3 with batches of 2 fills, fills exactly and
  overflows. 258 is a number a byte does not hold. Two browsers and the MCU are three
  askers of one scan; a list of 2 is read in two parts.

Deadlock is not checked where the model stops in `wild` or `astray`, where the
environment may have nothing left to do, or both (`roffs`, `prop_loader`, `sscp_net`,
`web`, `serial`).

**Fairness.** Each condition is a promise of the SDK or the end of a function that is
already running; none is assumed of requests, commands, polls, buttons, or of what a
browser or the Propeller sends, but for announced payloads.

* `SscpHttp`: `Sent`, the network confirms what it was given or closes the socket,
  which espconn promises by its sent, disconnect and reconnect callbacks; `DisconCb`
  of a socket the server is closing; `PayloadDone`, the MCU completes a payload it
  has announced, or breaks it off by a break, which is an action of its own.
* `SscpNet`: a lookup ends (`DnsCb`), a connect succeeds or fails (`tcp_connect_cb` or
  `tcp_recon_cb`), an announced payload comes (`send_cb`), a buffer is confirmed
  (`sent_cb`).
* `PropLoader`: an armed timer fires (`timerCallback`).
* `WsFrame`: the receive function ends (`cgiWebSocketRecv`), a sent buffer is confirmed
  (`wsSentCb`). `Httpd`: the receive function ends (`Receiving`), a buffer is
  confirmed or the connection breaks (`Confirmation`).
* `Wifi`: the SDK ends each scan (`ScanEnds`), the timers of the mode change and of
  the join fire (`setModeCb`, `resetTimerCb`).

## Proofs

Each `*Proofs` module proves, for every value of the constants that satisfies the
named assumptions, that an invariant is inductive, and the properties from it.

* `FlashConfigProofs` assumes `FlashAssumption` and, for all of its theorems,
  `ReadsSucceed`: the two reads of a boot do not report an error. Any operation of
  configSave may. `IInv` adds to the properties that a valid copy outside of the one
  being written is always a candidate (`FallbackIntact`), that a sector about to be
  written holds no valid copy and that the settings being saved are still the live ones;
  without the second a torn write could leave a copy of settings nobody saved. Proved:
  `TypeOK`, `Recoverable`, `DurableOnceSettled` and the refinement of `SettingsStore`.
* `SscpFilterProofs` assumes `FilterAssumption`, which only says that the constants are
  numbers. `IInv` adds what the buffer holds in each state (`BufferInBounds`: the bytes
  collected are bounded by the room that was checked before, so the digits need the spare
  room only), that no command is parsed while one is processed, and that a chunk is used
  up between two calls (`ChunkDone`). Proved: `TypeOK`, `BufferNotOverrun`,
  `PayloadWithinBuffer`, `ConservedUnlessGarbled` and the refinement of `SscpFraming`,
  also when payloads are empty.
* `SscpHttpProofs` assumes `HttpAssumption`. `IInv` strengthens `Linked` to requests in every state of
  parsing (`Attached`), and adds that used slots and captures lead to cells
  (`UsedSlots`). Proved from it: `TypeOK`, `Linked` and `NoHandleLeaks`. Two further
  invariants stand on it. `OrderInv` says what the microcontroller knows of a handle
  that is not in use or waits for its first poll (`Unheard`, `Opening`), that nothing is
  under way before the first REPLY (`Fresh`, `Blank`), and that with events sent at once
  what is under way is what was sent last (`Turns`); it gives `EventsInOrder` under the
  hypothesis `OneBuffer` (`MoreChunks` is at most {0}: the body of a POST in several
  buffers is what finding 2 is about). `AmountInv` says that the bytes counted off for a slot
  never overtake those settled, and will not when the last of the queued buffers is
  confirmed (`Amount`), the sum of the queue being told by its partial sums (`Sums`),
  which needs no recursion; it gives `NotFreedEarly` under `OneBuffer`, with replies and
  backlogs of any size: what the server drops is settled, as it will never be confirmed.
* `SscpNetProofs` assumes `NetAssumption`. `IInv` says of each slot what its type,
  flags, counts and socket have to do with each other (`Sound`: unread data carry
  RXFULL, a buffer on its way TXFULL, and a lookup or a connect under way excludes
  sending), of the slot whose payload is captured that it is taken (`Capturing`), and,
  without events, that only the command being processed has made a slot busy
  (`Asked`), which is why each callback answers it and no other, until a connection
  breaks (`failed`) or a handle that was given back is answered (`late`). Proved: `TypeOK`, `UnreadIsFlagged`, `BufferKept`,
  `ReplyWhenAsked` and the action property `MessageKept`.
* `PropLoaderProofs` assumes `LoaderAssumption` and `ButtonAssumption`. `IInv` is
  typing (`LoadTyped`, `RestTyped`), the button's history (`Steadied`) and `Going`: the
  properties with what carries them from step to step, that a request gone from its
  cell is remembered as an excuse, that a load from a file has the file unless its
  client left, that a plain reset has a request that waits for it (`ResetOnly`), and
  that what has been encoded is of the mode. Proved: `TypeOK`, `Served`, `SerialLineReturned`, `TimerPending`,
  `NoMoreThanAsked`, `OneEncoding`, `ButtonComesBack` and the action property
  `PressIsSteady`. The responses asked for are any numbers. `TimerPending` is the safety half of `LoadEnds`: where a load is in
  progress there is a timer to carry it on.
* `WebProofs` is about the four modules `MCWeb` puts side by side.
  - `Httpd` under `HttpdAssumption`. Two invariants are kept apart since they
    share no variable that matters: `Answering` (what is in flight and in the backlog
    are the numbers behind what arrived, and only an open connection is worked on) and
    `Counted` (before the end of the header nothing is received, behind it each byte
    seen is one received, and the POST buffer has room between two calls). Proved:
    `AnswerInOrder` and `BodyOnce`.
  - `WsFrame` under `WsAssumption`. A callback is only owed, and a frame only on its
    way, while the connection is open (`BusyIsOpen`); hence `ClosedOnce`. `Parsed`
    relates the parser's state to the bytes of the frame that came: which byte is next in
    each state, the length as the value of the digits so far, in the payload what is left
    of the frame and the byte of the mask that is next. With it each step is a step or a
    stutter of `WsStream`. `PlacesAssumption` adds the laws of powers for
    `Base ^ k`, of which the provers know nothing; TLC evaluates it for the instance.
  - `OtaUpload` under `OtaAssumption`, which has the two parts begin with a sector and
    the buffer be longer than a header; the lengths in headers are any integers. `OtaInv`
    says for each upload where in its image it is in every state (`InStep`) and what of
    the image the flash holds (`Stored`: the pages before the next one, the rest of whose
    sector is erased), as long as no operation failed and no other upload touched one of
    its sectors, which is kept since an upload erases only sectors it is in
    (`OwnSectors`); hence `DoneIsWritten`.
  - `WebLog` under `LogAssumption`. `LogInv` says that the ring holds the last characters
    in order, and that `log_pos` is the number of the first (`RingInv`); hence
    `TextInPlace`. An answer that is cut has no room in the send buffer, since that is no
    longer than the buffer the answer is made in.
* `StationProofs` is about the bridge, the settings of the line and the WiFi station.
  - `Serbridge` under `BridgeAssumption`. The invariant is `BridgeTypeOK` and `Accounted` per
    connection: a closed one owes nothing, one that is ready has nothing on its way or
    waiting, and one that is not has a callback to come or a running clock. Proved:
    `BridgeTypeOK`, `BytesConserved`, `WaitingIsWatched`.
  - `Settings` with the hypothesis `Distinct`: no number that is set, nor the byte
    kept of it, is the mark -1 `uart.c` uses for an unknown rate. (A SET of 255 stop
    bits would be kept as -1.) The invariant adds that what `uart.c` remembers
    is what the registers hold (`KnownIsSo`) and that the rate a load will go back to is
    the one that is set (`BackToSet`). Proved: both and `LineAsSet`.
  - `Wifi`: the invariant is `OneScan`, that a change of mode that is to scan afterwards
    finds no scan under way (`WaitsForMode`), and that a scan the microcontroller asked
    for is under way, or will be with the change of mode, or is marked as refused, unbegun or done
    (`AskedIsPending`, the safety half of `ScanIsReported`). Proved: the first and the last.

* `RoffsProofs` assumes `RoffsAssumption` (the file system is whole sectors),
  `NameAssumption` (a name without its '/' has none to take off) and
  `CellAssumption` (names, data, marks and headers are told apart). What the walk along
  the log returns is told without induction: a set L is the log up to e (`IsLog`)
  when it holds the first header and, with each header of a complete file, the next one
  and none between; the walk then finds L and e (`LogIs`), since there can be no largest
  header at which it goes wrong. `RoffsInv` says that there are such an L and e with
  - `Whole`: the files in L are complete, have distinct names unless these begin with a '/' (`Unique`), and each download
    finds what it began with, be its file deleted meanwhile (`Undisturbed`, `Reading`);
  - `Stage`: what the handler at work has done and has still to do, one of `Resting`,
    `Formatting`, `Receiving` (an upload waits at e for its next buffer), `Retiring` (the old version
    is about to be cleared), `Writing` (cells up to some a are laid, `Laid`; those behind
    are fresh, `Clean`; `todo` is the rest of the upload, `Plan`) and `Ending` (the file is
    published, the terminator behind it is not).

  `Clean` is why nothing is garbled: each cell a handler will write is erased, or lies in
  a sector whose erase comes first in its plan. Proved: `RoffsInv`, `NothingGarbled`,
  `ReadersUndisturbed`, `LogIsSound` (with `ListingIs`: FCOUNT and FINFO show the files one
  can open, each once, besides those with a '/' in front), and the refinement of `RoffsStore`. For it
  the flash is seen as it would be with the end that is still to be written (`Sight`, `Shown`);
  each flash operation is then a withdrawal (`RetireStep`), a publication
  (`CloseStep`), a format (`EraseStep`) or is not seen (`Untouched`), and the drafts follow
  the handlers (`CreateStep`, `WriteStep`, `CleanupStep`).

Only model-checked: all liveness (`SendIsAnswered`, `CommandIsAnswered`, `LoadEnds`,
`DoneIsClosed`, `RequestEnds`, `ScanIsReported`, `JoinIsDecided`), since fairness is
beyond the prover. Every safety property and every refinement of a passing run is also
a theorem, under the assumptions and hypotheses named above.

## Findings

1. `flash_config_erase`: configSave returns true when the erase of the old copy fails
   (config.c:120, "no back-up but we're OK"). flashConfig keeps its old sequence number, so
   the next save writes the number of the copy before it; with both copies valid a tie
   goes to the first sector, and the boot loads settings from before the last save.
2. `sscp_http_post`: the second buffer of a POST body is taken for a completed
   send.
3. `sscp_http_freed`: with events off a handle outlives its request.
4. `roffs_leftover`: the new place behind an unclosed upload is computed with
   the mask where its complement is meant (roffs.c:466), and lies in the first
   sector of the flash.

Each is described with its lines in PROJECT.json.

## Known divergences

What the code does in these cases is in the models, and the properties name it as a
condition or stop there.

* *Sequence numbers.* Finding 1 needs no more than one failed erase and one more save. After
  configRestoreDefaults the number of a save may also be the smaller of the two.
* *A payload of length zero.* A REPLY at the end of its total asks for one
  (sscp-http.c:226); the counter of `sscp_filter` passes zero without the callback
  (sscp.c:638), and all bytes up to a break are written behind the transmit buffer.
  `SscpFraming` has it, and in `SscpHttp` it keeps the capture.
* *A REPLY longer than the room behind its headers.* `reply_cb` does not look at what
  httpdSend returns (sscp-http.c:174): the body is dropped, counted as sent when the
  headers are, and answered by an 'S', which sscp.h:127 calls a complete transfer.
* *A payload for a handle that changes hands.* The payload of a REPLY or SEND goes to
  whatever request its slot leads to when it is complete (`astray` in `SscpHttp`).
* *Replies nobody asked for.* With events off: the error callback of an established TCP
  connection replies (sscp-tcp.c:168-175), and so do DNS and connect callbacks of a handle
  a break or a CLOSE took away (sscp-tcp.c:93-134, sscp-udp.c:97-126), which may even
  connect. With events on, `send_data_event` uses the prefix of a reply.
* *A SEND cut off by the peer* is never answered (`CutOff` in `SscpNet`).
* *A response larger than the buffer.* response-size comes from the URL (cgiprop.c:295)
  and is not compared with the 129 bytes of `PropellerConnection.buffer`; the bytes
  of the Propeller go behind it.
* *A load whose client is gone* answers into memory that was freed (cgiprop.c:482), and a
  file that cannot be read between two segments leaves the timer stopped and the loader
  taken (cgiprop.c:678): every later load is refused as busy.
* *A refused request changes the mode* of the load under way (cgiprop.c:322).
* *The log.* An answer of more than the send buffer's rest is dropped whole (log.c:143,
  httpd.c:364), and the page asks for the same text until enough of it has left the ring.
* *Upgrades.* The lengths in the header of an image are compared with nothing
  (cgiflash.c:152-173). An image may run over its part, a negative length or a body
  shorter than the header uses bytes outside of the POST buffer, and flash errors and a
  second upload leave a broken image behind a 200.
* *DONE without a byte.* A CGI that is done in a sent callback and has sent nothing is
  not closed by the server: a download of a multiple of 1024 bytes (httpdroffs.c:98-105).
* *cgiWebSocketRecv after DONE.* A client that goes on, after data without a mask, a long
  PING or in the middle of its CLOSE, has the handler called with the WebSocket that was
  freed. And nobody closes the socket when the CLOSE was the answer to one sent here.
* *A scan the SDK refuses* stays in progress for good (cgiwifi.c:146-147, 350-351), as its
  result is not looked at; one that fails leaves the microcontroller's callback set.
* *A join in the mode STA* has no timer that gives it up (cgiwifi.c:272): without the
  network the page polls for ever.
* *Names with a '/' in front* are stored as they are (roffs.c:559-574) and looked up
  without it (roffs.c:281-283): such a file is listed, cannot be opened and is never
  replaced, and its upload deletes the file of the name without the '/'.
* *Lines not as set.* A restore and a boot with other settings do not set the lines, and a
  load that is aborted leaves its own rate (`astray` in `Settings`).
* *Excused cases.* `garbled` in `SscpFilter`, the elements of `excuses` in `PropLoader`,
  `astray` in `SscpNet`, `SscpHttp` and `Settings`, `late` and `failed` in
  `SscpNet`, `lost` in `Serbridge` and `PropLoader`, `refused` and `unbegun` in `Wifi`,
  `refused`, `dropped` and `silent` in `Httpd`, `bad` and `mixed` in `OtaUpload`,
  `restarted` in `WebLog`, `wild` where memory that was freed or is another's is used: each
  is a variable the model sets when the code does something the property does not survive,
  and each property names the ones it needs.

## Not modelled

ARG, PATH and the other commands and requests that only read; the text
of settings, headers and listings; multipart uploads; the arithmetic of masks, hashes,
handshakes and of the Propeller's encoding; the LED, baud rates in `PropLoader` (they
are in `Settings`); the bytes from telnet to the UART, which are written at once. The
pool of connections and their memory are in `SscpHttp` and not in `Httpd`. `configWipe`
is never called. Flash reads fail in `FlashConfig` and `PropLoader` but not in `Roffs`.
Sequence numbers do not wrap in the model (2^32 saves). Discovery, status LED, captive
DNS, authentication, espfs with heatshrink, the host's tools and the web pages (but for
the log's) are not modelled: see the components in PROJECT.json.

## Plan

Done: the modules above, in this order: `FlashConfig`, `SscpFilter`, `SscpHttp`,
`Roffs`; then `PropLoader` with `Button`, `SscpNet`, `WsFrame`, `Serbridge`, `Wifi`,
`Settings`, `Httpd`, `OtaUpload`, `WebLog`; theorems about all of them.

What would come next: `SscpNet` and `WsFrame` composed, the handle over the parser
in place of a free choice of pieces.
